---- MODULE Spec2Model ----
(***************************************************************************)
(* DrawMySTEP: 3D extruded solid -> 2D profile -> minimum-bounding-box     *)
(* rotation.  Model of step_laser/projection.py (extract_profile and the   *)
(* curve classifier) and step_laser/optimizer.py (optimize_rotation), of   *)
(* the DXF export and dxf_min_bound, of the batch loops of the tools, and  *)
(* of the GUI's tabs, worker threads and log queues (DrawMySTEP.py).       *)
(*                                                                         *)
(* Numbers.  Python floats are modelled in fixed point:                    *)
(*   - an angle is an integer count of quarter degrees (360 deg = TURN);   *)
(*   - sin and cos are table values scaled by FX;                          *)
(*   - coordinates are integers; a product with sin/cos is rounded.        *)
(* A field keeps the source's name (start_deg, sweep_deg) and holds        *)
(* quarter degrees.                                                        *)
(***************************************************************************)
EXTENDS Integers, Sequences, FiniteSets, TLC

VARIABLES
  shape,        \* the solid handed to extract_profile (kernel object)
  scale,        \* unit_to_inches
  pc,           \* position in process_step_file
  axes_sorted,  \* extract_profile: axes by ascending extent
  idx,          \* extract_profile: position of the axis loop in axes_sorted
  best_face,    \* extract_profile: the face the profile was taken from
  profile,      \* the ProfileResult returned by extract_profile (or NoValue)
  optimized,    \* the OptimizedProfile returned by optimize_rotation (or NoValue)
  error,        \* the exception that ended the run ("" when none)
  aliased,      \* optimize_rotation: positions of the output that hold an object of the input
  reoptimized,  \* the OptimizedProfile of a second optimize_rotation, on the first one's
  outputs,      \* the output files on disk for the input being processed
  dxf,          \* the DXF document export_dxf saved (or NoValue)
  rotated,      \* the DXF document process_dxf saved for it (or NoValue)
  tool,         \* batch: which of the batch loops is running
  files,        \* batch: the files of the folder, as glob lists them
  paths,        \* batch: the sorted list the loop runs over
  pos,          \* batch: the loop's position in paths (i)
  success,      \* batch: the count of files processed without an exception
  errors,       \* batch: the names recorded as failed, in order
  attempted,    \* batch: the names handed to the processing function, in order
  bpc,          \* batch: where the batch loop stands
  written,      \* batch: the files written so far, each with the input it was written for
  sys_stdout,   \* GUI: the object sys.stdout names
  sys_stderr,   \* GUI: the object sys.stderr names
  tabs,         \* GUI: each ConverterTab's widgets (button, status, log box, poller)
  log_queue,    \* GUI: each ConverterTab's _log_queue
  worker        \* GUI: each ConverterTab's _worker thread, its position and locals

\* What the steps after extract_profile write.
file_vars == <<outputs, dxf, rotated>>

\* The state of a batch loop.
batch_vars == <<tool, files, paths, pos, success, errors, attempted, bpc, written>>

\* The state of the GUI.
gui_vars == <<sys_stdout, sys_stderr, tabs, log_queue, worker>>

post_vars == <<aliased, reoptimized, file_vars, batch_vars, gui_vars>>

vars == <<shape, scale, pc, axes_sorted, idx, best_face, profile, optimized, error,
          post_vars>>

NoValue == [k |-> "None"]

-----------------------------------------------------------------------------
(* Fixed-point arithmetic and trigonometry                                  *)

\* 360 degrees, in quarter degrees.
TURN == 1440
\* The scale of the sin/cos table values.
FX == 10000

Abs(n) == IF n < 0 THEN -n ELSE n

Max2(a, b) == IF a >= b THEN a ELSE b

\* n / d rounded to the nearest integer (d > 0).
RoundDiv(n, d) == (n + (d \div 2)) \div d

\* FX * sin(i quarter degrees), i in 0..360, indexed from 1.
SinTab ==
  <<
    0, 44, 87, 131, 175, 218, 262, 305, 349, 393, 436, 480,
    523, 567, 610, 654, 698, 741, 785, 828, 872, 915, 958, 1002,
    1045, 1089, 1132, 1175, 1219, 1262, 1305, 1349, 1392, 1435, 1478, 1521,
    1564, 1607, 1650, 1693, 1736, 1779, 1822, 1865, 1908, 1951, 1994, 2036,
    2079, 2122, 2164, 2207, 2250, 2292, 2334, 2377, 2419, 2462, 2504, 2546,
    2588, 2630, 2672, 2714, 2756, 2798, 2840, 2882, 2924, 2965, 3007, 3049,
    3090, 3132, 3173, 3214, 3256, 3297, 3338, 3379, 3420, 3461, 3502, 3543,
    3584, 3624, 3665, 3706, 3746, 3786, 3827, 3867, 3907, 3947, 3987, 4027,
    4067, 4107, 4147, 4187, 4226, 4266, 4305, 4344, 4384, 4423, 4462, 4501,
    4540, 4579, 4617, 4656, 4695, 4733, 4772, 4810, 4848, 4886, 4924, 4962,
    5000, 5038, 5075, 5113, 5150, 5188, 5225, 5262, 5299, 5336, 5373, 5410,
    5446, 5483, 5519, 5556, 5592, 5628, 5664, 5700, 5736, 5771, 5807, 5842,
    5878, 5913, 5948, 5983, 6018, 6053, 6088, 6122, 6157, 6191, 6225, 6259,
    6293, 6327, 6361, 6394, 6428, 6461, 6494, 6528, 6561, 6593, 6626, 6659,
    6691, 6724, 6756, 6788, 6820, 6852, 6884, 6915, 6947, 6978, 7009, 7040,
    7071, 7102, 7133, 7163, 7193, 7224, 7254, 7284, 7314, 7343, 7373, 7402,
    7431, 7461, 7490, 7518, 7547, 7576, 7604, 7632, 7660, 7688, 7716, 7744,
    7771, 7799, 7826, 7853, 7880, 7907, 7934, 7960, 7986, 8013, 8039, 8064,
    8090, 8116, 8141, 8166, 8192, 8216, 8241, 8266, 8290, 8315, 8339, 8363,
    8387, 8410, 8434, 8457, 8480, 8504, 8526, 8549, 8572, 8594, 8616, 8638,
    8660, 8682, 8704, 8725, 8746, 8767, 8788, 8809, 8829, 8850, 8870, 8890,
    8910, 8930, 8949, 8969, 8988, 9007, 9026, 9045, 9063, 9081, 9100, 9118,
    9135, 9153, 9171, 9188, 9205, 9222, 9239, 9255, 9272, 9288, 9304, 9320,
    9336, 9351, 9367, 9382, 9397, 9412, 9426, 9441, 9455, 9469, 9483, 9497,
    9511, 9524, 9537, 9550, 9563, 9576, 9588, 9600, 9613, 9625, 9636, 9648,
    9659, 9670, 9681, 9692, 9703, 9713, 9724, 9734, 9744, 9753, 9763, 9772,
    9781, 9790, 9799, 9808, 9816, 9825, 9833, 9840, 9848, 9856, 9863, 9870,
    9877, 9884, 9890, 9897, 9903, 9909, 9914, 9920, 9925, 9931, 9936, 9941,
    9945, 9950, 9954, 9958, 9962, 9966, 9969, 9973, 9976, 9979, 9981, 9984,
    9986, 9988, 9990, 9992, 9994, 9995, 9997, 9998, 9998, 9999, 10000, 10000,
    10000
  >>

\* math.sin / math.cos of an angle in quarter degrees, scaled by FX.
Sin(a) ==
  LET m == a % TURN
  IN  IF m <= 360 THEN SinTab[m + 1]
      ELSE IF m <= 720 THEN SinTab[720 - m + 1]
      ELSE IF m <= 1080 THEN -SinTab[m - 720 + 1]
      ELSE -SinTab[TURN - m + 1]

Cos(a) == Sin(a + 360)

\* x * sin(a) - y * cos(a): negative while a is clockwise of the vector
\* (x, y), positive once it is past it, growing over the quadrant of (x, y).
Cross(x, y, a) == x * Sin(a) - y * Cos(a)

\* The largest a in lo..hi with Cross(x, y, a) <= 0 (lo is one).
RECURSIVE LastBelow(_, _, _, _)
LastBelow(x, y, lo, hi) ==
  IF lo >= hi THEN lo
  ELSE LET mid == (lo + hi + 1) \div 2
       IN  IF Cross(x, y, mid) <= 0 THEN LastBelow(x, y, mid, hi)
           ELSE LastBelow(x, y, lo, mid - 1)

\* math.degrees(math.atan2(y, x)): the angle in [-180, 180] degrees of the
\* vector (x, y), to the nearest quarter degree; atan2(0, 0) = 0.
Atan2Deg(y, x) ==
  IF x = 0 /\ y = 0 THEN 0
  ELSE
    LET lo == IF y >= 0 THEN (IF x > 0 THEN 0 ELSE 360)
              ELSE (IF x >= 0 THEN -360 ELSE -720)
        a  == LastBelow(x, y, lo, lo + 360)
    IN  IF a < lo + 360 /\ Cross(x, y, a + 1) < -Cross(x, y, a) THEN a + 1 ELSE a

-----------------------------------------------------------------------------
(* Primitive types returned by extract_profile (projection.py 25-51)        *)

Line2D(x1, y1, x2, y2) == [k |-> "Line", x1 |-> x1, y1 |-> y1, x2 |-> x2, y2 |-> y2]

Circle2D(cx, cy, r) == [k |-> "Circle", cx |-> cx, cy |-> cy, r |-> r]

Arc2D(cx, cy, r, start_deg, sweep_deg, x1, y1, x2, y2) ==
  [k |-> "Arc", cx |-> cx, cy |-> cy, r |-> r,
   start_deg |-> start_deg, sweep_deg |-> sweep_deg,
   x1 |-> x1, y1 |-> y1, x2 |-> x2, y2 |-> y2]

Polyline2D(points) == [k |-> "Polyline", points |-> points]

ProfileResult(edges, wires, thickness_inches, extrusion_axis) ==
  [k |-> "ProfileResult", edges |-> edges, wires |-> wires,
   thickness_inches |-> thickness_inches, extrusion_axis |-> extrusion_axis]

\* The axes in enumeration order (the insertion order of the extents dict).
AXES == <<"X", "Y", "Z">>

\* AXIS_VECTORS: gp_Vec per axis.
AXIS_VECTORS(axis) ==
  CASE axis = "X" -> <<1, 0, 0>>
    [] axis = "Y" -> <<0, 1, 0>>
    [] axis = "Z" -> <<0, 0, 1>>

\* gp_Vec.Dot
Dot3(a, b) == a[1] * b[1] + a[2] * b[2] + a[3] * b[3]

\* a % 360, which Python leaves in [0, 360) for every float a.
normalize_angle(a) ==
  LET m == a % TURN
  IN  IF m < 0 THEN m + TURN ELSE m

\* Project a 3D point to 2D by dropping the extrusion axis.
drop_axis(x, y, z, axis) ==
  IF axis = "X" THEN <<y, z>>
  ELSE IF axis = "Y" THEN <<x, z>>
  ELSE <<x, y>>

-----------------------------------------------------------------------------
(* The CAD kernel's curves (BRepAdaptor_Curve), as the extractor reads them *)
(*                                                                          *)
(* A curve is a record with its classified type, its parametric domain      *)
(* [first, last] and what Value(t) needs:                                   *)
(*   "line", "other": the 3D end points p1, p2 (Value interpolates; an      *)
(*       "other" curve is a spline the kernel does not classify as a line); *)
(*   "circle": centre c, radius r, the axis the circle's plane is normal    *)
(*       to, and the polar angle phase + orient * t of Value(t) in that     *)
(*       plane's two coordinates (orient = 1: counter-clockwise in the      *)
(*       projection along that axis, -1: clockwise).                        *)
(* Parameters are integers: quarter degrees on a circle, kernel length      *)
(* units on a line, fiftieths of a parameter unit on any other curve.       *)

\* The point in space with in-plane coordinates (u, v) and height h on the
\* axis: the inverse of drop_axis on that axis.
Embed(axis, u, v, h) ==
  IF axis = "X" THEN <<h, u, v>>
  ELSE IF axis = "Y" THEN <<u, h, v>>
  ELSE <<u, v, h>>

\* adaptor.Value(t) at the parameter t = tn / td.
Value(c, tn, td) ==
  IF c.type = "circle"
  THEN LET a  == c.phase + c.orient * RoundDiv(tn, td)
           cc == drop_axis(c.c[1], c.c[2], c.c[3], c.plane)
           hh == Dot3(c.c, AXIS_VECTORS(c.plane))
       IN  Embed(c.plane, cc[1] + RoundDiv(c.r * Cos(a), FX),
                          cc[2] + RoundDiv(c.r * Sin(a), FX), hh)
  ELSE IF c.last = c.first THEN c.p1
  ELSE [i \in 1..3 |->
          c.p1[i] + RoundDiv((c.p2[i] - c.p1[i]) * (tn - c.first * td),
                             (c.last - c.first) * td)]

-----------------------------------------------------------------------------
(* _extract_edges_from_wire (projection.py 104-201)                         *)

\* 1e-3: a parametric span below it marks a degenerate edge.  It is finer
\* than the parameter grid: a span is below it exactly when it is 0.
ParamEps == 1
\* 1e-6: the full-circle tolerance on last - first - 2*pi; finer than the
\* grid, so the span is within it exactly when it is TURN.
FullCircleEps == 1
\* 0.5 degrees: the slack of the midpoint test, in quarter degrees.
MidSlack == 2
\* The least number of samples of a tessellated curve.
MinTessellation == 20

\* The 2D point of Value(t), dropped along the axis and scaled.
ProjectAt(c, tn, td, axis, sc) ==
  LET p == Value(c, tn, td)
      q == drop_axis(p[1], p[2], p[3], axis)
  IN  <<q[1] * sc, q[2] * sc>>

\* ArcSweep without the replacement of a zero sweep by a full turn.
ArcSweepKeepZero(start_deg, end_deg, mid_deg) ==
  LET ccw_sweep == normalize_angle(end_deg - start_deg)
      mid_from_start == normalize_angle(mid_deg - start_deg)
  IN  IF mid_from_start <= ccw_sweep + MidSlack
      THEN ccw_sweep
      ELSE ccw_sweep - TURN

\* Lines 169-182: the signed sweep of an arc from the polar angles of its
\* start, end and parametric midpoint.
ArcSweep(start_deg, end_deg, mid_deg) ==
  LET n0 == normalize_angle(end_deg - start_deg)
      ccw_sweep == IF n0 = 0 THEN TURN ELSE n0
      mid_from_start == normalize_angle(mid_deg - start_deg)
  IN  IF mid_from_start <= ccw_sweep + MidSlack
      THEN ccw_sweep
      ELSE ccw_sweep - TURN

\* IsFullCircle against pi instead of 2*pi.
IsFullCircleHalfTurn(first, last) == Abs(last - first - (TURN \div 2)) < FullCircleEps

\* Line 150: the full circle check.
IsFullCircle(first, last) == Abs(last - first - TURN) < FullCircleEps

\* Lines 134-188: a circular curve becomes a Circle2D or an Arc2D.
ExtractCircular(c, axis, sc) ==
  LET cc == drop_axis(c.c[1], c.c[2], c.c[3], axis)
      cx == cc[1] * sc
      cy == cc[2] * sc
      r  == c.r * sc
      p1 == ProjectAt(c, c.first, 1, axis, sc)
      p2 == ProjectAt(c, c.last, 1, axis, sc)
  IN  IF IsFullCircle(c.first, c.last)
      THEN Circle2D(cx, cy, r)
      ELSE LET pm == ProjectAt(c, c.first + c.last, 2, axis, sc)
               start_deg == Atan2Deg(p1[2] - cy, p1[1] - cx)
               end_deg   == Atan2Deg(p2[2] - cy, p2[1] - cx)
               mid_deg   == Atan2Deg(pm[2] - cy, pm[1] - cx)
           IN  Arc2D(cx, cy, r, start_deg, ArcSweep(start_deg, end_deg, mid_deg),
                     p1[1], p1[2], p2[1], p2[2])

\* A tessellation that leaves out the end point of the curve.
TessellateOpen(c, axis, sc) ==
  LET n_points == Max2(MinTessellation, c.last - c.first)
  IN  Polyline2D([j \in 1..n_points |->
        ProjectAt(c, c.first * n_points + (c.last - c.first) * (j - 1),
                  n_points, axis, sc)])

\* Lines 190-199: any other curve is tessellated into a Polyline2D.
\* int((last - first) * 50) is last - first, a span counted in fiftieths.
Tessellate(c, axis, sc) ==
  LET n_points == Max2(MinTessellation, c.last - c.first)
  IN  Polyline2D([j \in 1..(n_points + 1) |->
        ProjectAt(c, c.first * n_points + (c.last - c.first) * (j - 1),
                  n_points, axis, sc)])

\* The body of the loop over wire.Edges(): the primitives one curve adds.
ExtractEdge(c, axis, sc) ==
  IF Abs(c.last - c.first) < ParamEps THEN << >>
  ELSE IF c.type = "line"
  THEN LET p1 == ProjectAt(c, c.first, 1, axis, sc)
           p2 == ProjectAt(c, c.last, 1, axis, sc)
       IN  << Line2D(p1[1], p1[2], p2[1], p2[2]) >>
  ELSE IF c.type = "circle" THEN << ExtractCircular(c, axis, sc) >>
  ELSE << Tessellate(c, axis, sc) >>

RECURSIVE extract_edges_from_wire(_, _, _)
extract_edges_from_wire(wire, axis, sc) ==
  IF wire = << >> THEN << >>
  ELSE ExtractEdge(Head(wire), axis, sc)
         \o extract_edges_from_wire(Tail(wire), axis, sc)

-----------------------------------------------------------------------------
(* _is_rectangle (projection.py 78-91)                                      *)

RECURSIVE ISqrtIn(_, _, _)
ISqrtIn(n, lo, hi) ==
  IF lo >= hi THEN lo
  ELSE LET mid == (lo + hi + 1) \div 2
       IN  IF mid * mid <= n THEN ISqrtIn(n, mid, hi) ELSE ISqrtIn(n, lo, mid - 1)

\* np.linalg.norm of an integer vector, rounded down.
Norm2(v) == ISqrtIn(v[1] * v[1] + v[2] * v[2], 0, 46340)

\* Lines 86-89: abs(dot) > 0.05 for the normalised dot product of the
\* direction vectors of lines a and b, i.e. 20 * |va.vb| > |va| * |vb|.
NotPerpendicular(a, b) ==
  LET va  == <<a.x2 - a.x1, a.y2 - a.y1>>
      vb  == <<b.x2 - b.x1, b.y2 - b.y1>>
      dot == va[1] * vb[1] + va[2] * vb[2]
  IN  Abs(dot) > (Norm2(va) * Norm2(vb)) \div 20

is_rectangle(edges_2d) ==
  LET lines == SelectSeq(edges_2d, LAMBDA e : e.k = "Line")
  IN  IF Len(lines) # Len(edges_2d) \/ Len(lines) # 4 THEN FALSE
      ELSE \A i \in 0..3 : ~NotPerpendicular(lines[i + 1], lines[((i + 1) % 4) + 1])

-----------------------------------------------------------------------------
(* extract_profile (projection.py 206-302), on a kernel solid:              *)
(*   shape.extents[axis]   the bounding box extent along the axis           *)
(*   shape.faces           shape.faces().vals(), each face a record with    *)
(*     geomType, normal (1000 * the unit normal at the face centre, or      *)
(*     "raise" when normalAt raises), area, outer (the outer wire's curves) *)
(*     and inner (the inner wires, each a sequence of curves)               *)

\* sorted(keys, key=...): Python's sort is stable, so an element goes after
\* every element already placed whose key is not larger.
\* InsertSorted with ties resolved the other way (an unstable sort).
RECURSIVE InsertSortedUnstable(_, _, _)
InsertSortedUnstable(sorted, a, key) ==
  IF sorted = << >> THEN <<a>>
  ELSE IF key[Head(sorted)] < key[a]
       THEN <<Head(sorted)>> \o InsertSortedUnstable(Tail(sorted), a, key)
       ELSE <<a>> \o sorted

RECURSIVE InsertSorted(_, _, _)
InsertSorted(sorted, a, key) ==
  IF sorted = << >> THEN <<a>>
  ELSE IF key[Head(sorted)] <= key[a]
       THEN <<Head(sorted)>> \o InsertSorted(Tail(sorted), a, key)
       ELSE <<a>> \o sorted

RECURSIVE SortedBy(_, _)
SortedBy(seq, key) ==
  IF seq = << >> THEN << >>
  ELSE InsertSorted(SortedBy(SubSeq(seq, 1, Len(seq) - 1), key), seq[Len(seq)], key)

\* Lines 228-237 and 274-283: the planar faces whose normal is parallel to
\* the axis (|normal . axis| > 0.999), in face order.
CandidateFaces(sh, axis) ==
  SelectSeq(sh.faces, LAMBDA f :
    /\ f.geomType = "PLANE"
    /\ f.normal # "raise"
    /\ Abs(Dot3(f.normal, AXIS_VECTORS(axis))) > 999)

\* max(faces, key=_face_area): the first face of the largest area.
MaxAreaFace(faces) ==
  LET i == CHOOSE i \in 1..Len(faces) :
             /\ \A j \in 1..Len(faces) : faces[j].area <= faces[i].area
             /\ \A j \in 1..(i - 1) : faces[j].area < faces[i].area
  IN  faces[i]

RECURSIVE InnerWiresEdges(_, _, _)
InnerWiresEdges(inner, axis, sc) ==
  IF inner = << >> THEN << >>
  ELSE <<extract_edges_from_wire(Head(inner), axis, sc)>>
         \o InnerWiresEdges(Tail(inner), axis, sc)

\* A concatenation that puts the holes before the outer boundary.
RECURSIVE FlattenHolesFirst(_)
FlattenHolesFirst(wires) ==
  IF wires = << >> THEN << >> ELSE FlattenHolesFirst(Tail(wires)) \o Head(wires)

RECURSIVE Flatten(_)
Flatten(wires) ==
  IF wires = << >> THEN << >> ELSE Head(wires) \o Flatten(Tail(wires))

\* Lines 244-256 and 286-295: [outer_edges] + inner_wires_edges of a face.
FaceWires(face, axis, sc) ==
  <<extract_edges_from_wire(face.outer, axis, sc)>>
    \o InnerWiresEdges(face.inner, axis, sc)

\* Lines 262-267 and 297-302: the ProfileResult built from a face.
ProfileOfFace(sh, face, axis, sc) ==
  LET wires == FaceWires(face, axis, sc)
  IN  ProfileResult(Flatten(wires), wires, sh.extents[axis] * sc, axis)

\* FallbackFace that always takes the first face.
FallbackFaceFirst(sh, axis) == sh.faces[1]

\* Line 285: the face the fallback takes on the smallest axis.
FallbackFace(sh, axis) ==
  LET planar_faces == CandidateFaces(sh, axis)
  IN  IF planar_faces # << >> THEN MaxAreaFace(planar_faces) ELSE sh.faces[1]

\* RectangleCheck on the outer wire alone.
RectangleCheckOuter(wires) == is_rectangle(wires[1])

\* Line 259: the rectangle check, on all_edges.
RectangleCheck(wires) == is_rectangle(Flatten(wires))

-----------------------------------------------------------------------------
(* The solids the model runs on: extrusions of 2D outlines, and two solids  *)
(* without planar faces.  An outline is drawn in the plane of the two       *)
(* coordinates drop_axis keeps; a curve of an outline is                    *)
(*   [type "line", a, b], [type "other", a, b, span] or                     *)
(*   [type "circle", c, r, first, last, phase, orient].                     *)

OLine(a, b) == [type |-> "line", a |-> a, b |-> b]

OSpline(a, b, span) == [type |-> "other", a |-> a, b |-> b, span |-> span]

OArc(c, r, first, last, phase, orient) ==
  [type |-> "circle", c |-> c, r |-> r, first |-> first, last |-> last,
   phase |-> phase, orient |-> orient]

\* The kernel curve of an outline curve at height h on the axis.
EmbedCurve(d, axis, h) ==
  IF d.type = "circle"
  THEN [type |-> "circle", c |-> Embed(axis, d.c[1], d.c[2], h), r |-> d.r,
        plane |-> axis, first |-> d.first, last |-> d.last,
        phase |-> d.phase, orient |-> d.orient]
  ELSE [type |-> d.type, p1 |-> Embed(axis, d.a[1], d.a[2], h),
        p2 |-> Embed(axis, d.b[1], d.b[2], h), first |-> 0,
        last |-> IF d.type = "line"
                 THEN Max2(Abs(d.b[1] - d.a[1]), Abs(d.b[2] - d.a[2]))
                 ELSE d.span]

EmbedWire(w, axis, h) == [i \in 1..Len(w) |-> EmbedCurve(w[i], axis, h)]

\* A kernel line between two points in space.
KLine(p, q) ==
  [type |-> "line", p1 |-> p, p2 |-> q, first |-> 0,
   last |-> Max2(Max2(Abs(q[1] - p[1]), Abs(q[2] - p[2])), Abs(q[3] - p[3]))]

\* The face swept by one outline curve over the height: a planar rectangle
\* under a straight line, a curved face under anything else.
SideFace(d, axis, height) ==
  IF d.type = "line"
  THEN LET du  == d.b[1] - d.a[1]
           dv  == d.b[2] - d.a[2]
           len == Norm2(<<du, dv>>)
           a0  == Embed(axis, d.a[1], d.a[2], 0)
           b0  == Embed(axis, d.b[1], d.b[2], 0)
           a1  == Embed(axis, d.a[1], d.a[2], height)
           b1  == Embed(axis, d.b[1], d.b[2], height)
       IN  [geomType |-> "PLANE",
            normal |-> IF len = 0 THEN "raise"
                       ELSE Embed(axis, (1000 * dv) \div len, (-1000 * du) \div len, 0),
            area |-> len * height,
            outer |-> <<KLine(a0, b0), KLine(b0, b1), KLine(b1, a1), KLine(a1, a0)>>,
            inner |-> << >>]
  ELSE [geomType |-> IF d.type = "circle" THEN "CYLINDER" ELSE "BSPLINE",
        normal |-> "raise", area |-> 1000 * height,
        outer |-> <<EmbedCurve(d, axis, 0), EmbedCurve(d, axis, height)>>,
        inner |-> << >>]

CapFace(o, axis, h) ==
  [geomType |-> "PLANE", normal |-> Embed(axis, 0, 0, IF h = 0 THEN -1000 ELSE 1000),
   area |-> o.area, outer |-> EmbedWire(o.outer, axis, h),
   inner |-> [i \in 1..Len(o.holes) |-> EmbedWire(o.holes[i], axis, h)]]

\* The solid extruded from outline o along the axis over the height: its
\* two caps, then a side face per outline curve.
Prism(o, axis, height) ==
  LET curves == o.outer \o Flatten(o.holes)
      ext    == Embed(axis, o.du, o.dv, height)
  IN  [extents |-> [X |-> ext[1], Y |-> ext[2], Z |-> ext[3]],
       faces |-> <<CapFace(o, axis, 0), CapFace(o, axis, height)>>
                   \o [i \in 1..Len(curves) |-> SideFace(curves[i], axis, height)]]

-----------------------------------------------------------------------------
(* optimizer.py: sampling, rotation, translation                            *)

OptimizedProfile(edges, wires, bbox_w, bbox_h, rotation_deg, thickness_inches) ==
  [k |-> "OptimizedProfile", edges |-> edges, wires |-> wires,
   bbox_w |-> bbox_w, bbox_h |-> bbox_h, rotation_deg |-> rotation_deg,
   thickness_inches |-> thickness_inches]

\* n_per_full_circle, and the number of samples of a Circle2D.
SamplesPerCircle == 64
\* The least number of steps along an arc.
MinArcSteps == 8

\* A sampling that never leaves the height of the centre.
PolarPointFlat(cx, cy, r, a) == <<cx + RoundDiv(r * Cos(a), FX), cy>>

\* The point of the circle (cx, cy, r) at polar angle a.
PolarPoint(cx, cy, r, a) ==
  <<cx + RoundDiv(r * Cos(a), FX), cy + RoundDiv(r * Sin(a), FX)>>

\* _sample_arc_points: both end points, then the interior samples.
sample_arc_points(arc) ==
  LET n == Max2(MinArcSteps, (Abs(arc.sweep_deg) * SamplesPerCircle) \div TURN)
  IN  <<<<arc.x1, arc.y1>>, <<arc.x2, arc.y2>>>>
        \o [i \in 1..(n - 1) |->
              PolarPoint(arc.cx, arc.cy, arc.r,
                         arc.start_deg + RoundDiv(arc.sweep_deg * i, n))]

\* The points _sample_points collects from one edge.
EdgePoints(e) ==
  CASE e.k = "Line"     -> <<<<e.x1, e.y1>>, <<e.x2, e.y2>>>>
    [] e.k = "Circle"   -> [j \in 1..SamplesPerCircle |->
                              PolarPoint(e.cx, e.cy, e.r,
                                         RoundDiv(TURN * (j - 1), SamplesPerCircle))]
    [] e.k = "Arc"      -> sample_arc_points(e)
    [] e.k = "Polyline" -> e.points
    [] OTHER            -> << >>

RECURSIVE sample_points(_)
sample_points(edges) ==
  IF edges = << >> THEN << >>
  ELSE EdgePoints(Head(edges)) \o sample_points(Tail(edges))

rotate_point(x, y, cos_a, sin_a) ==
  <<RoundDiv(x * cos_a - y * sin_a, FX), RoundDiv(x * sin_a + y * cos_a, FX)>>

\* _rotate_edge that leaves an arc's start angle as it was.
rotate_edge_keep_start(edge, cos_a, sin_a) ==
  CASE edge.k = "Line" ->
         LET p1 == rotate_point(edge.x1, edge.y1, cos_a, sin_a)
             p2 == rotate_point(edge.x2, edge.y2, cos_a, sin_a)
         IN  Line2D(p1[1], p1[2], p2[1], p2[2])
    [] edge.k = "Circle" ->
         LET c == rotate_point(edge.cx, edge.cy, cos_a, sin_a)
         IN  Circle2D(c[1], c[2], edge.r)
    [] edge.k = "Arc" ->
         LET c  == rotate_point(edge.cx, edge.cy, cos_a, sin_a)
             p1 == rotate_point(edge.x1, edge.y1, cos_a, sin_a)
             p2 == rotate_point(edge.x2, edge.y2, cos_a, sin_a)
         IN  Arc2D(c[1], c[2], edge.r, edge.start_deg,
                   edge.sweep_deg, p1[1], p1[2], p2[1], p2[2])
    [] edge.k = "Polyline" ->
         Polyline2D([j \in 1..Len(edge.points) |->
                       rotate_point(edge.points[j][1], edge.points[j][2], cos_a, sin_a)])
    [] OTHER -> edge

\* _rotate_edge: a new edge primitive rotated by the angle of (cos_a, sin_a).
rotate_edge(edge, cos_a, sin_a) ==
  CASE edge.k = "Line" ->
         LET p1 == rotate_point(edge.x1, edge.y1, cos_a, sin_a)
             p2 == rotate_point(edge.x2, edge.y2, cos_a, sin_a)
         IN  Line2D(p1[1], p1[2], p2[1], p2[2])
    [] edge.k = "Circle" ->
         LET c == rotate_point(edge.cx, edge.cy, cos_a, sin_a)
         IN  Circle2D(c[1], c[2], edge.r)
    [] edge.k = "Arc" ->
         LET c  == rotate_point(edge.cx, edge.cy, cos_a, sin_a)
             p1 == rotate_point(edge.x1, edge.y1, cos_a, sin_a)
             p2 == rotate_point(edge.x2, edge.y2, cos_a, sin_a)
             angle_offset == Atan2Deg(sin_a, cos_a)
         IN  Arc2D(c[1], c[2], edge.r, edge.start_deg + angle_offset,
                   edge.sweep_deg, p1[1], p1[2], p2[1], p2[2])
    [] edge.k = "Polyline" ->
         Polyline2D([j \in 1..Len(edge.points) |->
                       rotate_point(edge.points[j][1], edge.points[j][2], cos_a, sin_a)])
    [] OTHER -> edge

\* _translate_edge that moves a circle's and an arc's centre by dx twice.
translate_edge_centre_typo(edge, dx, dy) ==
  CASE edge.k = "Line" ->
         Line2D(edge.x1 + dx, edge.y1 + dy, edge.x2 + dx, edge.y2 + dy)
    [] edge.k = "Circle" -> Circle2D(edge.cx + dx, edge.cy + dx, edge.r)
    [] edge.k = "Arc" ->
         Arc2D(edge.cx + dx, edge.cy + dx, edge.r, edge.start_deg, edge.sweep_deg,
               edge.x1 + dx, edge.y1 + dy, edge.x2 + dx, edge.y2 + dy)
    [] edge.k = "Polyline" ->
         Polyline2D([j \in 1..Len(edge.points) |->
                       <<edge.points[j][1] + dx, edge.points[j][2] + dy>>])
    [] OTHER -> edge

\* _translate_edge: a new edge primitive translated by (dx, dy).
translate_edge(edge, dx, dy) ==
  CASE edge.k = "Line" ->
         Line2D(edge.x1 + dx, edge.y1 + dy, edge.x2 + dx, edge.y2 + dy)
    [] edge.k = "Circle" -> Circle2D(edge.cx + dx, edge.cy + dy, edge.r)
    [] edge.k = "Arc" ->
         Arc2D(edge.cx + dx, edge.cy + dy, edge.r, edge.start_deg, edge.sweep_deg,
               edge.x1 + dx, edge.y1 + dy, edge.x2 + dx, edge.y2 + dy)
    [] edge.k = "Polyline" ->
         Polyline2D([j \in 1..Len(edge.points) |->
                       <<edge.points[j][1] + dx, edge.points[j][2] + dy>>])
    [] OTHER -> edge

\* min / max of the i-th coordinate of the points lo..hi of a sequence.
RECURSIVE MinIn(_, _, _, _)
MinIn(pts, i, lo, hi) ==
  IF lo = hi THEN pts[lo][i]
  ELSE LET mid == (lo + hi) \div 2
           a   == MinIn(pts, i, lo, mid)
           b   == MinIn(pts, i, mid + 1, hi)
       IN  IF a <= b THEN a ELSE b

MinCoord(pts, i) == MinIn(pts, i, 1, Len(pts))

RECURSIVE MaxIn(_, _, _, _)
MaxIn(pts, i, lo, hi) ==
  IF lo = hi THEN pts[lo][i]
  ELSE LET mid == (lo + hi) \div 2
           a   == MaxIn(pts, i, lo, mid)
           b   == MaxIn(pts, i, mid + 1, hi)
       IN  IF a >= b THEN a ELSE b

MaxCoord(pts, i) == MaxIn(pts, i, 1, Len(pts))

\* Lines 146-150 and 160-164: the list comprehensions over a list of edges.
RotateEdges(edges, cos_a, sin_a) ==
  [j \in 1..Len(edges) |-> rotate_edge(edges[j], cos_a, sin_a)]

\* The translation step that builds its list back to front.
TranslateEdgesReversed(edges, dx, dy) ==
  [j \in 1..Len(edges) |-> translate_edge(edges[Len(edges) + 1 - j], dx, dy)]

TranslateEdges(edges, dx, dy) ==
  [j \in 1..Len(edges) |-> translate_edge(edges[j], dx, dy)]

\* The primitive types: _rotate_edge and _translate_edge build a new object
\* for each of them (lines 91-111, 117-129) and hand any other object back
\* as it is (lines 112, 130).
PrimitiveKinds == {"Line", "Circle", "Arc", "Polyline"}

rotate_edge_is_new(edge) == edge.k \in PrimitiveKinds

translate_edge_is_new(edge) == edge.k \in PrimitiveKinds

\* The positions of a list of edges whose object comes out of both steps as
\* the object that went in.
SharedWithInput(edges) ==
  {j \in 1..Len(edges) :
     ~rotate_edge_is_new(edges[j]) /\ ~translate_edge_is_new(edges[j])}

\* _rotate_edge that rotates the point list of a Polyline2D where it is.
rotate_edge_in_place(edge, cos_a, sin_a) ==
  IF edge.k = "Polyline"
  THEN Polyline2D([j \in 1..Len(edge.points) |->
                     rotate_point(edge.points[j][1], edge.points[j][2], cos_a, sin_a)])
  ELSE edge

\* The argument of _rotate_edge after the call: lines 89-112 read its
\* attributes and assign none of them.
rotate_edge_argument_after(edge, cos_a, sin_a) == edge

\* The ProfileResult handed to optimize_rotation, after the call.  Only
\* _rotate_edge is handed objects of the input (lines 146-150).
InputAfterOptimize(prof, angle_deg) ==
  LET cos_a == Cos(-angle_deg)
      sin_a == Sin(-angle_deg)
  IN  [prof EXCEPT
         !.edges = [j \in 1..Len(prof.edges) |->
                      rotate_edge_argument_after(prof.edges[j], cos_a, sin_a)],
         !.wires = [w \in 1..Len(prof.wires) |->
                      [j \in 1..Len(prof.wires[w]) |->
                         rotate_edge_argument_after(prof.wires[w][j], cos_a, sin_a)]]]

\* optimize_rotation from line 142 on, for the angle _find_optimal_angle
\* returned: the OptimizedProfile, or the exception raised.
OptimizeWithAngle(prof, angle_deg) ==
  LET rad   == -angle_deg
      cos_a == Cos(rad)
      sin_a == Sin(rad)
      rotated_edges == RotateEdges(prof.edges, cos_a, sin_a)
      rotated_wires == [w \in 1..Len(prof.wires) |->
                          RotateEdges(prof.wires[w], cos_a, sin_a)]
      rotated_pts   == sample_points(rotated_edges)
  IN  IF rotated_pts = << >>
      THEN [k |-> "raise", exc |-> "ValueError"]   \* min() of an empty sequence
      ELSE LET xmin == MinCoord(rotated_pts, 1)
               xmax == MaxCoord(rotated_pts, 1)
               ymin == MinCoord(rotated_pts, 2)
               ymax == MaxCoord(rotated_pts, 2)
               dx   == -xmin
               dy   == -ymin
           IN  OptimizedProfile(
                 TranslateEdges(rotated_edges, dx, dy),
                 [w \in 1..Len(rotated_wires) |->
                    TranslateEdges(rotated_wires[w], dx, dy)],
                 xmax - xmin, ymax - ymin, -angle_deg, prof.thickness_inches)

\* The width and height of the axis-aligned box of the points turned by -a.
BoxAt(pts, a) ==
  LET cos_a == Cos(-a)
      sin_a == Sin(-a)
      r == [j \in 1..Len(pts) |-> rotate_point(pts[j][1], pts[j][2], cos_a, sin_a)]
  IN  <<MaxCoord(r, 1) - MinCoord(r, 1), MaxCoord(r, 2) - MinCoord(r, 2)>>

AreaAt(pts, a) == LET b == BoxAt(pts, a) IN b[1] * b[2]

\* All the points lie on one line (or are one point).
Collinear(pts) ==
  LET p0 == pts[1]
      others == {j \in 1..Len(pts) : pts[j] # p0}
  IN  \/ others = {}
      \/ LET q == pts[CHOOSE j \in others : TRUE]
         IN  \A j \in 1..Len(pts) :
               (q[1] - p0[1]) * (pts[j][2] - p0[2])
                 = (q[2] - p0[2]) * (pts[j][1] - p0[1])

\* shapely's minimum_rotated_rectangle lies outside the repository; it is
\* modelled by its contract.  The rectangle is one of least area around the
\* points; the directions of its sides are searched among SideDirections
\* (0, 37 and 45 degrees, each standing for itself plus 90, 180 and 270);
\* which of the four sides comes first in the ring of coordinates is not
\* specified, so the angle of the first edge is any of the four.
SideDirections == {0, 148, 180}

MaxDirections(pts) ==
  LET areas == [d \in SideDirections |-> AreaAt(pts, d)]
  IN  {d \in SideDirections : \A e \in SideDirections : areas[d] >= areas[e]}

MinDirections(pts) ==
  LET areas == [d \in SideDirections |-> AreaAt(pts, d)]
  IN  {d \in SideDirections : \A e \in SideDirections : areas[d] <= areas[e]}

\* math.degrees(math.atan2(...)): into (-180, 180].
WrapAngle(a) == IF a > TURN \div 2 THEN a - TURN ELSE a

RotationAngles(pts) ==
  {WrapAngle(d + k * (TURN \div 4)) : d \in MinDirections(pts), k \in 0..3}

\* _find_optimal_angle: the angles it can return for the sampled points.
\* Fewer than 3 points give 0.
find_optimal_angle(pts) ==
  IF Len(pts) < 3 THEN {0} ELSE RotationAngles(pts)

\* _find_optimal_angle can raise: for 3 or more points on one line the
\* convex hull has no area, and the object that comes back for it may have
\* no exterior ring; line 79 then raises AttributeError.
find_optimal_angle_may_raise(pts) == Len(pts) >= 3 /\ Collinear(pts)

-----------------------------------------------------------------------------
(* DXF documents: exporters/dxf_exporter.py and dxf_min_bound/main.py       *)

DxfLine(x1, y1, x2, y2) == [k |-> "LINE", x1 |-> x1, y1 |-> y1, x2 |-> x2, y2 |-> y2]

DxfCircle(cx, cy, r) == [k |-> "CIRCLE", cx |-> cx, cy |-> cy, r |-> r]

DxfArc(cx, cy, r, start_angle, end_angle) ==
  [k |-> "ARC", cx |-> cx, cy |-> cy, r |-> r,
   start_angle |-> start_angle, end_angle |-> end_angle]

DxfPolyline(points) == [k |-> "LWPOLYLINE", points |-> points]

\* An export that writes start_deg and the end angle as they are.
add_arc_unswapped(edge) ==
  DxfArc(edge.cx, edge.cy, edge.r, edge.start_deg, edge.start_deg + edge.sweep_deg)

\* dxf_exporter.py 30-48: a DXF arc runs counter-clockwise from start_angle
\* to end_angle, so a clockwise Arc2D is written from its end to its start.
add_arc(edge) ==
  LET end_angle == edge.start_deg + edge.sweep_deg
  IN  IF edge.sweep_deg > 0
      THEN DxfArc(edge.cx, edge.cy, edge.r, edge.start_deg, end_angle)
      ELSE DxfArc(edge.cx, edge.cy, edge.r, end_angle, edge.start_deg)

\* The entities one edge adds to the modelspace (dxf_exporter.py 19-51).
add_edge(edge) ==
  CASE edge.k = "Line"     -> <<DxfLine(edge.x1, edge.y1, edge.x2, edge.y2)>>
    [] edge.k = "Circle"   -> <<DxfCircle(edge.cx, edge.cy, edge.r)>>
    [] edge.k = "Arc"      -> <<add_arc(edge)>>
    [] edge.k = "Polyline" -> IF Len(edge.points) >= 2
                              THEN <<DxfPolyline(edge.points)>> ELSE << >>
    [] OTHER               -> << >>

RECURSIVE add_edges(_)
add_edges(edges) ==
  IF edges = << >> THEN << >> ELSE add_edge(Head(edges)) \o add_edges(Tail(edges))

\* export_dxf: the document it saves.
export_dxf(prof) ==
  [k |-> "DXF", entities |-> add_edges(prof.edges),
   extmax |-> <<prof.bbox_w, prof.bbox_h>>]

\* The n of _sample_entity_points and its least number of steps on an arc.
DxfSamples == 64
DxfMinSteps == 8

\* The counter-clockwise span of an ARC as main.py 42-45 and the SVG writer
\* read it: (end - start) mod 360, a span of 0 standing for the full turn.
ArcSpan(sa, ea) ==
  LET span == (ea - sa) % TURN IN IF span = 0 THEN TURN ELSE span

\* _sample_entity_points (dxf_min_bound/main.py 23-53).
sample_entity_points(entity) ==
  CASE entity.k = "LINE" -> <<<<entity.x1, entity.y1>>, <<entity.x2, entity.y2>>>>
    [] entity.k = "CIRCLE" ->
         [j \in 1..DxfSamples |->
            PolarPoint(entity.cx, entity.cy, entity.r,
                       RoundDiv(TURN * (j - 1), DxfSamples))]
    [] entity.k = "ARC" ->
         LET span  == ArcSpan(entity.start_angle, entity.end_angle)
             steps == Max2(DxfMinSteps, (span * DxfSamples) \div TURN)
         IN  [j \in 1..(steps + 1) |->
                PolarPoint(entity.cx, entity.cy, entity.r,
                           entity.start_angle + RoundDiv(span * (j - 1), steps))]
    [] entity.k = "LWPOLYLINE" -> entity.points
    [] OTHER -> << >>

RECURSIVE sample_entities(_)
sample_entities(entities) ==
  IF entities = << >> THEN << >>
  ELSE sample_entity_points(Head(entities)) \o sample_entities(Tail(entities))

\* The first loop of _apply_rotation (lines 80-101) on one entity.
rotate_entity(entity, angle_deg, cos_a, sin_a) ==
  CASE entity.k = "LINE" ->
         LET s == rotate_point(entity.x1, entity.y1, cos_a, sin_a)
             e == rotate_point(entity.x2, entity.y2, cos_a, sin_a)
         IN  DxfLine(s[1], s[2], e[1], e[2])
    [] entity.k = "CIRCLE" ->
         LET c == rotate_point(entity.cx, entity.cy, cos_a, sin_a)
         IN  DxfCircle(c[1], c[2], entity.r)
    [] entity.k = "ARC" ->
         LET c == rotate_point(entity.cx, entity.cy, cos_a, sin_a)
         IN  DxfArc(c[1], c[2], entity.r,
                    (entity.start_angle + angle_deg) % TURN,
                    (entity.end_angle + angle_deg) % TURN)
    [] entity.k = "LWPOLYLINE" ->
         DxfPolyline([j \in 1..Len(entity.points) |->
                        rotate_point(entity.points[j][1], entity.points[j][2],
                                     cos_a, sin_a)])
    [] OTHER -> entity

\* The second loop of _apply_rotation (lines 107-117) on one entity.
translate_entity(entity, ox, oy) ==
  CASE entity.k = "LINE" ->
         DxfLine(entity.x1 - ox, entity.y1 - oy, entity.x2 - ox, entity.y2 - oy)
    [] entity.k = "CIRCLE" -> DxfCircle(entity.cx - ox, entity.cy - oy, entity.r)
    [] entity.k = "ARC" ->
         DxfArc(entity.cx - ox, entity.cy - oy, entity.r,
                entity.start_angle, entity.end_angle)
    [] entity.k = "LWPOLYLINE" ->
         DxfPolyline([j \in 1..Len(entity.points) |->
                        <<entity.points[j][1] - ox, entity.points[j][2] - oy>>])
    [] OTHER -> entity

\* The polar angle lies on the counter-clockwise span that starts at sa.
InSpan(theta, sa, span) == (theta - sa) % TURN <= span

\* ezdxf's bbox.extents measures the geometry itself: the points its box is
\* spanned by are the ends of a LINE, the vertices of an LWPOLYLINE, the
\* four axis-extreme points of a CIRCLE, and for an ARC its two ends and the
\* axis-extreme points of its circle that lie on its span.
entity_extent_points(entity) ==
  CASE entity.k = "LINE" -> <<<<entity.x1, entity.y1>>, <<entity.x2, entity.y2>>>>
    [] entity.k = "LWPOLYLINE" -> entity.points
    [] entity.k = "CIRCLE" ->
         <<<<entity.cx + entity.r, entity.cy>>, <<entity.cx, entity.cy + entity.r>>,
           <<entity.cx - entity.r, entity.cy>>, <<entity.cx, entity.cy - entity.r>>>>
    [] entity.k = "ARC" ->
         LET span == ArcSpan(entity.start_angle, entity.end_angle)
         IN  <<PolarPoint(entity.cx, entity.cy, entity.r, entity.start_angle),
               PolarPoint(entity.cx, entity.cy, entity.r, entity.end_angle)>>
               \o (IF InSpan(0, entity.start_angle, span)
                   THEN <<<<entity.cx + entity.r, entity.cy>>>> ELSE << >>)
               \o (IF InSpan(TURN \div 4, entity.start_angle, span)
                   THEN <<<<entity.cx, entity.cy + entity.r>>>> ELSE << >>)
               \o (IF InSpan(TURN \div 2, entity.start_angle, span)
                   THEN <<<<entity.cx - entity.r, entity.cy>>>> ELSE << >>)
               \o (IF InSpan(3 * (TURN \div 4), entity.start_angle, span)
                   THEN <<<<entity.cx, entity.cy - entity.r>>>> ELSE << >>)
    [] OTHER -> << >>

RECURSIVE extent_points(_)
extent_points(entities) ==
  IF entities = << >> THEN << >>
  ELSE entity_extent_points(Head(entities)) \o extent_points(Tail(entities))

\* _apply_rotation (lines 71-120): the entities turned and moved, and the
\* upper corner of their extents.
apply_rotation(entities, angle_deg) ==
  LET cos_a   == Cos(angle_deg)
      sin_a   == Sin(angle_deg)
      turned  == [j \in 1..Len(entities) |->
                    rotate_entity(entities[j], angle_deg, cos_a, sin_a)]
      corners == extent_points(turned)
      ox      == MinCoord(corners, 1)
      oy      == MinCoord(corners, 2)
      moved   == [j \in 1..Len(turned) |-> translate_entity(turned[j], ox, oy)]
      after   == extent_points(moved)
  IN  [entities |-> moved, bbox_w |-> MaxCoord(after, 1), bbox_h |-> MaxCoord(after, 2)]

\* process_dxf from line 135 on, for the angle _find_optimal_angle returned:
\* the document saved as <stem>_rotated.dxf.
process_dxf(doc, mrr_angle) ==
  LET angle_deg == -mrr_angle
      res       == apply_rotation(doc.entities, angle_deg)
  IN  [k |-> "DXF", entities |-> res.entities, extmax |-> doc.extmax,
       bbox_w |-> res.bbox_w, bbox_h |-> res.bbox_h, angle_deg |-> angle_deg]

-----------------------------------------------------------------------------
(* Inputs                                                                   *)

\* unit_to_inches is drawn from 1..MaxScale.
MaxScale == 2
\* Extrusion heights are 2000 * (1..MaxHeight).
MaxHeight == 2
\* Arcs start at polar angles 500 * (0..MaxPhase) quarter degrees.
MaxPhase == 2
\* Short arcs span 2 * (1..MaxTinySpan) quarter degrees.
MaxTinySpan == 3

Rect(w, h) ==
  <<OLine(<<0, 0>>, <<w, 0>>), OLine(<<w, 0>>, <<w, h>>),
    OLine(<<w, h>>, <<0, h>>), OLine(<<0, h>>, <<0, 0>>)>>

OutlineL ==
  [outer |-> <<OLine(<<0, 0>>, <<4000, 0>>), OLine(<<4000, 0>>, <<4000, 1000>>),
               OLine(<<4000, 1000>>, <<1000, 1000>>), OLine(<<1000, 1000>>, <<1000, 3000>>),
               OLine(<<1000, 3000>>, <<0, 3000>>), OLine(<<0, 3000>>, <<0, 0>>)>>,
   holes |-> << >>, area |-> 6000000, du |-> 4000, dv |-> 3000]

OutlineRect ==
  [outer |-> Rect(4000, 2000), holes |-> << >>, area |-> 8000000,
   du |-> 4000, dv |-> 2000]

\* A rectangular plate with a round hole and a square one.
OutlineRectHole ==
  [outer |-> Rect(4000, 2000),
   holes |-> <<<<OArc(<<2000, 1000>>, 500, 0, TURN, 0, 1)>>,
               <<OLine(<<2800, 500>>, <<3500, 500>>), OLine(<<3500, 500>>, <<3500, 1200>>),
                 OLine(<<3500, 1200>>, <<2800, 1200>>), OLine(<<2800, 1200>>, <<2800, 500>>)>>>>,
   area |-> 6724602, du |-> 4000, dv |-> 2000]

\* A rectangle whose wire also holds a seam edge of zero span.
OutlineRectSeam ==
  [outer |-> Rect(4000, 2000) \o <<OLine(<<0, 0>>, <<0, 0>>)>>,
   holes |-> << >>, area |-> 8000000, du |-> 4000, dv |-> 2000]

OutlineDisc ==
  [outer |-> <<OArc(<<1500, 1500>>, 1500, 0, TURN, 0, 1)>>, holes |-> << >>,
   area |-> 7068583, du |-> 3000, dv |-> 3000]

\* A slot: the right end is parametrised counter-clockwise, the left end
\* clockwise.
OutlineSlot ==
  [outer |-> <<OLine(<<1000, 0>>, <<3000, 0>>),
               OArc(<<3000, 1000>>, 1000, 0, 720, -360, 1),
               OLine(<<3000, 2000>>, <<1000, 2000>>),
               OArc(<<1000, 1000>>, 1000, 0, 720, -360, -1)>>,
   holes |-> << >>, area |-> 7141593, du |-> 4000, dv |-> 2000]

\* A square standing on a corner.
OutlineDiamond ==
  [outer |-> <<OLine(<<1000, 0>>, <<2000, 1000>>), OLine(<<2000, 1000>>, <<1000, 2000>>),
               OLine(<<1000, 2000>>, <<0, 1000>>), OLine(<<0, 1000>>, <<1000, 0>>)>>,
   holes |-> << >>, area |-> 2000000, du |-> 2000, dv |-> 2000]

OutlineTrapezoid ==
  [outer |-> <<OLine(<<0, 0>>, <<4000, 0>>), OLine(<<4000, 0>>, <<3000, 2000>>),
               OLine(<<3000, 2000>>, <<1000, 2000>>), OLine(<<1000, 2000>>, <<0, 0>>)>>,
   holes |-> << >>, area |-> 6000000, du |-> 4000, dv |-> 2000]

OutlineSpline ==
  [outer |-> <<OLine(<<0, 0>>, <<3000, 0>>), OLine(<<3000, 0>>, <<3000, 2000>>),
               OSpline(<<3000, 2000>>, <<1500, 2500>>, 25),
               OLine(<<1500, 2500>>, <<1500, 2500>>),
               OSpline(<<1500, 2500>>, <<0, 0>>, 7)>>,
   holes |-> << >>, area |-> 3000000, du |-> 3000, dv |-> 2000]

\* A circular segment: one arc of the given start angle, span and
\* orientation about (2000, 2000), closed by a line.
OutlineSegment(phase, span, orient) ==
  LET c == OArc(<<2000, 2000>>, 2000, 0, span, phase, orient)
      k == EmbedCurve(c, "Z", 0)
      a == Value(k, span, 1)
      b == Value(k, 0, 1)
  IN  [outer |-> <<c, OLine(<<a[1], a[2]>>, <<b[1], b[2]>>)>>, holes |-> << >>,
       area |-> 3000000, du |-> 4000, dv |-> 4000]

ArcSpans ==
  {2 * i : i \in 1..MaxTinySpan} \cup {360, 720, 1080, TURN - 2}

Outlines ==
  {OutlineL, OutlineRect, OutlineRectHole, OutlineRectSeam, OutlineDisc,
   OutlineSlot, OutlineDiamond, OutlineTrapezoid, OutlineSpline}

SegmentOutlines ==
  {OutlineSegment(500 * p, s, o) : p \in 0..MaxPhase, s \in ArcSpans, o \in {1, -1}}

\* A ball: one spherical face bounded by a half-circle seam in the plane
\* normal to Y and two degenerate edges at the poles.
SolidBall ==
  LET seam == [type |-> "circle", c |-> <<1000, 1000, 1000>>, r |-> 1000,
               plane |-> "Y", first |-> 0, last |-> 720, phase |-> -360, orient |-> 1]
  IN  [extents |-> [X |-> 2000, Y |-> 2000, Z |-> 2000],
       faces |-> <<[geomType |-> "SPHERE", normal |-> "raise", area |-> 12566371,
                    outer |-> <<seam, KLine(<<1000, 1000, 0>>, <<1000, 1000, 0>>),
                                KLine(<<1000, 1000, 2000>>, <<1000, 1000, 2000>>)>>,
                    inner |-> << >>]>>]

\* A free-form body: one curved face whose boundary holds an arc from 30 to
\* 150 degrees in a plane normal to Z.
SolidBlob ==
  LET arc == [type |-> "circle", c |-> <<500, 1500, 1000>>, r |-> 1500,
              plane |-> "Z", first |-> 0, last |-> 480, phase |-> 120, orient |-> 1]
  IN  [extents |-> [X |-> 1000, Y |-> 3000, Z |-> 2000],
       faces |-> <<[geomType |-> "BSPLINE", normal |-> "raise", area |-> 5000000,
                    outer |-> <<arc>>, inner |-> << >>]>>]

\* A cube drilled through along X and along Y: the faces normal to X and
\* to Y are squares with a round hole, the faces normal to Z plain squares.
SolidDrilled ==
  LET holed == [outer |-> Rect(2000, 2000),
                holes |-> <<<<OArc(<<1000, 1000>>, 500, 0, TURN, 0, 1)>>>>,
                area |-> 3214602, du |-> 2000, dv |-> 2000]
      plain == [outer |-> Rect(2000, 2000), holes |-> << >>,
                area |-> 4000000, du |-> 2000, dv |-> 2000]
      bore(axis) == [geomType |-> "CYLINDER", normal |-> "raise", area |-> 6283185,
                     outer |-> <<EmbedCurve(holed.holes[1][1], axis, 0),
                                 EmbedCurve(holed.holes[1][1], axis, 2000)>>,
                     inner |-> << >>]
  IN  [extents |-> [X |-> 2000, Y |-> 2000, Z |-> 2000],
       faces |-> <<CapFace(plain, "Z", 0), CapFace(plain, "Z", 2000),
                   CapFace(holed, "Y", 0), CapFace(holed, "Y", 2000),
                   CapFace(holed, "X", 0), CapFace(holed, "X", 2000),
                   bore("X"), bore("Y")>>]

Solids ==
  {Prism(o, AXES[a], 2000 * h) : o \in Outlines, a \in 1..3, h \in 1..MaxHeight}
  \cup {Prism(o, AXES[a], 2000) : o \in SegmentOutlines, a \in 1..3}
  \cup {SolidBall, SolidBlob, SolidDrilled}

\* Profiles handed to optimize_rotation directly: up to MaxEdges primitives
\* of EdgePool in one wire.
MaxEdges == 2

EdgePool ==
  {Line2D(0, 0, 3000, 4000),
   Circle2D(1000, -2000, 1500),
   Arc2D(0, 0, 2000, -360, -600, 0, -2000, -1000, 1732),
   Polyline2D(<<<<0, 0>>, <<2000, 1000>>, <<500, 3000>>>>),
   Polyline2D(<<<<-1000, 500>>, <<2000, 500>>>>),
   Polyline2D(<< >>)}

RECURSIVE SeqsUpTo(_, _)
SeqsUpTo(S, n) ==
  IF n = 0 THEN {<< >>}
  ELSE LET shorter == SeqsUpTo(S, n - 1)
       IN  shorter \cup {Append(q, e) : q \in shorter, e \in S}

\* A disc with a tab: a full circle and a line from its centre to a point
\* just outside it, in the direction SideDirections holds off the axes.
TabbedDisc == <<Circle2D(0, 0, 15000), Line2D(0, 0, 11992, 9036)>>

\* A circular segment: an arc of 100 degrees about the Y axis, and its
\* chord.  The arc is sampled in 17 steps, so its apex is not a sample.
ArcSegment ==
  LET a == PolarPoint(0, 0, 15000, 160)
      b == PolarPoint(0, 0, 15000, 560)
  IN  <<Arc2D(0, 0, 15000, 160, 400, a[1], a[2], b[1], b[2]),
        Line2D(b[1], b[2], a[1], a[2])>>

DirectProfiles ==
  {ProfileResult(edges, <<edges>>, 250, "Z") :
     edges \in SeqsUpTo(EdgePool, MaxEdges) \cup {TabbedDisc, ArcSegment}}

-----------------------------------------------------------------------------------------------------------------------------------------------------
(* Batch loops: step_laser/main.py main, dxf_min_bound/main.py main and the *)
(* GUI's ConverterTab._run and _worker                                      *)

\* The batch loops: the two command-line tools and the two tabs of the GUI.
Tools == {"step_laser", "dxf_min_bound", "gui_step", "gui_dxf"}

\* A folder lists at most MaxFiles files of the tool's extension.
MaxFiles == 2

\* A file name: its stem is a word, a separator (a space or an underscore)
\* and one of the letters 1, 2; it is written in upper or lower case, and
\* may end in _rotated.
FileNames == [letter : 1..2, upper : BOOLEAN, sep : {" ", "_"}, rotated : BOOLEAN]

\* name.lower(), the sort key: the case is dropped, a space orders before an
\* underscore, the suffix orders after the bare stem.
LowerKey ==
  [n \in FileNames |->
     (IF n.sep = "_" THEN 8 ELSE 0) + 2 * n.letter + (IF n.rotated THEN 1 ELSE 0)]

\* The folders: listings of distinct files, in the order glob yields them.
Listings ==
  {l \in SeqsUpTo(FileNames, MaxFiles) :
     \A a, b \in 1..Len(l) : a # b => l[a] # l[b]}

\* The tools that skip the files whose stem ends in _rotated.
SkipsRotated(t) == t \in {"dxf_min_bound", "gui_dxf"}

Kept(t, n) == ~(SkipsRotated(t) /\ n.rotated)

\* The sorted list of files the loop runs over.
FilesToProcess(t, listing) ==
  SortedBy(SelectSeq(listing, LAMBDA n : Kept(t, n)), LowerKey)

\* A loop that gives up at the first failure.
index_after_error_abort(i, total) == total + 1

\* The except clause ends the iteration, not the loop: the next file is next.
index_after_error(i, total) == i + 1

\* stem.replace(" ", "_").
replace_spaces(n) == [n EXCEPT !.sep = "_"]

\* A path of the folder: the stem of file name n with added more _rotated
\* at its end, and the extension.
Path(n, added, ext) ==
  [letter |-> n.letter, upper |-> n.upper, sep |-> n.sep,
   suffixes |-> (IF n.rotated THEN 1 ELSE 0) + added, ext |-> ext]

\* The extension of the files a tool lists.
InputExt(t) == IF t \in {"step_laser", "gui_step"} THEN "step" ELSE "dxf"

\* The files process_step_file (main.py 26, 43-53) and process_dxf
\* (dxf_min_bound/main.py 142-144) write for the input named n, in the order
\* they are written.
OutputPaths(t, n) ==
  IF InputExt(t) = "step"
  THEN <<Path(replace_spaces(n), 0, "dxf"), Path(replace_spaces(n), 0, "svg"),
         Path(replace_spaces(n), 0, "pdf")>>
  ELSE <<Path(replace_spaces(n), 1, "dxf")>>

\* What one call of the processing function for n wrote: its first k files.
Writes(t, n, k) ==
  [j \in 1..k |-> [input |-> n, path |-> OutputPaths(t, n)[j]]]

\* No batch is running.
BatchIdle ==
  /\ tool = "step_laser"
  /\ files = << >>
  /\ paths = << >>
  /\ pos = 0
  /\ success = 0
  /\ errors = << >>
  /\ attempted = << >>
  /\ bpc = "idle"
  /\ written = << >>

-----------------------------------------------------------------------------
(* DrawMySTEP.py: the GUI, its two tabs, their worker threads and queues    *)

\* App.__init__ builds two ConverterTabs: the STEP converter and the DXF
\* rotator.
Tabs == {"step", "dxf"}

\* A run of a tab goes over at most MaxPaths files, the processing function
\* prints at most MaxPrints lines for a file, and the user starts at most
\* MaxRuns runs in a tab.
MaxPaths == 1

MaxPrints == 1

MaxRuns == 1

\* The stream objects the process started with.  Any other value of
\* sys.stdout or sys.stderr is a QueueWriter, named by the tab whose
\* _log_queue it feeds.
OriginalStream == "original"

\* A piece of text: the tab whose thread wrote it, and what it is.
Text(by, what) == [by |-> by, what |-> what]

\* The "\n" that print writes after the line is all white space.
IsBlank(text) == text.what = "newline"

\* QueueWriter.write: text that is not blank goes on the queue as a log item.
QueueWriter_write(q, text) ==
  IF IsBlank(text) THEN q ELSE Append(q, <<"log", text>>)

\* print(line) with sys.stdout naming stream: the line and a newline are
\* written to it.  What the original stream is handed is not on any queue.
print(stream, queues, text) ==
  IF stream = OriginalStream
  THEN queues
  ELSE [queues EXCEPT
          ![stream] = QueueWriter_write(QueueWriter_write(@, text),
                                        Text(text.by, "newline"))]

\* self._log_queue.put(item) of tab t.
put(queues, t, item) == [queues EXCEPT ![t] = Append(@, item)]

\* The position of the first "done" item of a queue, 0 when it has none.
FirstDone(q) ==
  IF \E k \in 1..Len(q) : q[k][1] = "done"
  THEN CHOOSE k \in 1..Len(q) :
         q[k][1] = "done" /\ \A m \in 1..(k - 1) : q[m][1] # "done"
  ELSE 0

\* The texts of the log items of a queue, in order.
LogTexts(q) ==
  LET logs == SelectSeq(q, LAMBDA item : item[1] = "log")
  IN  [k \in 1..Len(logs) |-> logs[k][2]]

\* _set_busy that leaves the button enabled.
set_busy_ignored(busy) == "normal"

\* _set_busy: the state the tab's button is put in.
set_busy(busy) == IF busy THEN "disabled" ELSE "normal"

\* A tab without a worker thread: _worker's locals do not exist.
NoThread ==
  [pc |-> "idle", original_stdout |-> OriginalStream,
   original_stderr |-> OriginalStream, total |-> 0, i |-> 0, success |-> 0,
   printed |-> 0]

\* The state App.__init__ leaves: the streams are the process's own, no
\* worker thread exists, the queues and log boxes are empty, the buttons
\* are enabled.  enqueued is a history variable: the texts put on the tab's
\* queue since the run under way started.
AppInit ==
  /\ sys_stdout = OriginalStream
  /\ sys_stderr = OriginalStream
  /\ tabs = [t \in Tabs |->
              [run_btn |-> "normal", log_box |-> << >>,
               polling |-> FALSE, runs |-> 0, enqueued |-> << >>]]
  /\ log_queue = [t \in Tabs |-> << >>]
  /\ worker = [t \in Tabs |-> NoThread]

-----
(* process_step_file (main.py 24-55) on one solid: extract_profile, then    *)
(* optimize_rotation                                                        *)

\* process_step_file is about to call extract_profile on a loaded solid.
InitPipeline ==
  /\ shape \in Solids
  /\ scale \in 1..MaxScale
  /\ pc = "extract"
  /\ profile = NoValue

\* A caller is about to call optimize_rotation on a profile of its own.
InitOptimize ==
  /\ shape = NoValue
  /\ scale = 1
  /\ pc = "optimize"
  /\ profile \in DirectProfiles

Init ==
  /\ InitPipeline \/ InitOptimize
  /\ axes_sorted = << >>
  /\ idx = 0
  /\ best_face = NoValue
  /\ optimized = NoValue
  /\ error = ""
  /\ aliased = {}
  /\ reoptimized = NoValue
  /\ outputs = {}
  /\ dxf = NoValue
  /\ rotated = NoValue
  /\ BatchIdle
  /\ AppInit

\* Lines 212-220: the extents and the axes sorted by them.
SortAxes ==
  /\ pc = "extract"
  /\ axes_sorted' = SortedBy(AXES, shape.extents)
  /\ idx' = 1
  /\ pc' = "axis_loop"
  /\ UNCHANGED <<shape, scale, best_face, profile, optimized, error, post_vars>>

\* Lines 222-240: the axis has no candidate face: continue.
AxisSkipped ==
  /\ pc = "axis_loop"
  /\ idx <= Len(axes_sorted)
  /\ CandidateFaces(shape, axes_sorted[idx]) = << >>
  /\ idx' = idx + 1
  /\ UNCHANGED <<shape, scale, pc, axes_sorted, best_face, profile, optimized, error, post_vars>>

\* Lines 242-260: the largest candidate face fails the rectangle check.
AxisRejected ==
  /\ pc = "axis_loop"
  /\ idx <= Len(axes_sorted)
  /\ LET axis  == axes_sorted[idx]
         cands == CandidateFaces(shape, axis)
     IN  /\ cands # << >>
         /\ RectangleCheck(FaceWires(MaxAreaFace(cands), axis, scale))
  /\ idx' = idx + 1
  /\ UNCHANGED <<shape, scale, pc, axes_sorted, best_face, profile, optimized, error, post_vars>>

\* Lines 242-267: the largest candidate face is returned as the profile.
AxisAccepted ==
  /\ pc = "axis_loop"
  /\ idx <= Len(axes_sorted)
  /\ LET axis  == axes_sorted[idx]
         cands == CandidateFaces(shape, axis)
     IN  /\ cands # << >>
         /\ ~RectangleCheck(FaceWires(MaxAreaFace(cands), axis, scale))
         /\ best_face' = MaxAreaFace(cands)
         /\ profile' = ProfileOfFace(shape, MaxAreaFace(cands), axis, scale)
  /\ pc' = "optimize"
  /\ UNCHANGED <<shape, scale, axes_sorted, idx, optimized, error, post_vars>>

\* Lines 269-302: the loop ended without a return.
Fallback ==
  /\ pc = "axis_loop"
  /\ idx > Len(axes_sorted)
  /\ LET axis == axes_sorted[1]
     IN  IF CandidateFaces(shape, axis) = << >> /\ shape.faces = << >>
         THEN /\ error' = "IndexError"
              /\ pc' = "failed"
              /\ UNCHANGED <<best_face, profile>>
         ELSE /\ best_face' = FallbackFace(shape, axis)
              /\ profile' = ProfileOfFace(shape, FallbackFace(shape, axis), axis, scale)
              /\ pc' = "optimize"
              /\ UNCHANGED error
  /\ UNCHANGED <<shape, scale, axes_sorted, idx, optimized, post_vars>>

\* optimizer.py 133-173.
OptimizeRotation ==
  /\ pc = "optimize"
  /\ \/ /\ find_optimal_angle_may_raise(sample_points(profile.edges))
        /\ error' = "AttributeError"
        /\ pc' = "failed"
        /\ UNCHANGED <<optimized, aliased, profile>>
     \/ \E angle_deg \in find_optimal_angle(sample_points(profile.edges)) :
          LET res == OptimizeWithAngle(profile, angle_deg)
          IN  /\ IF res.k = "raise"
                 THEN /\ error' = res.exc
                      /\ pc' = "failed"
                      /\ UNCHANGED <<optimized, aliased>>
                 ELSE /\ optimized' = res
                      /\ aliased' = SharedWithInput(profile.edges) \cup
                                      UNION {SharedWithInput(profile.wires[w]) :
                                               w \in 1..Len(profile.wires)}
                      /\ pc' = "done"
                      /\ UNCHANGED error
              /\ profile' = InputAfterOptimize(profile, angle_deg)
  /\ UNCHANGED <<shape, scale, axes_sorted, idx, best_face, reoptimized, file_vars,
                 batch_vars, gui_vars>>

\* optimize_rotation called again, on the profile it returned.  The second
\* call is followed up for the profiles that were handed in directly.
Reoptimize ==
  /\ pc = "done"
  /\ shape = NoValue
  /\ \/ /\ find_optimal_angle_may_raise(sample_points(optimized.edges))
        /\ error' = "AttributeError"
        /\ pc' = "refailed"
        /\ UNCHANGED reoptimized
     \/ \E angle_deg \in find_optimal_angle(sample_points(optimized.edges)) :
          /\ reoptimized' = OptimizeWithAngle(optimized, angle_deg)
          /\ pc' = "redone"
          /\ UNCHANGED error
  /\ UNCHANGED <<shape, scale, axes_sorted, idx, best_face, profile, optimized, aliased,
                 file_vars, batch_vars, gui_vars>>

\* step_laser/main.py 43-54: export_dxf, export_svg and export_pdf, each
\* saving its file before the next one starts.  export_pdf divides by
\* bbox_w and by bbox_h (pdf_exporter.py 164) before it saves anything.
ExportAll ==
  /\ pc = "done"
  /\ dxf' = export_dxf(optimized)
  /\ IF optimized.bbox_w = 0 \/ optimized.bbox_h = 0
     THEN /\ outputs' = {"dxf", "svg"}
          /\ error' = "ZeroDivisionError"
          /\ pc' = "export_failed"
     ELSE /\ outputs' = {"dxf", "svg", "pdf"}
          /\ pc' = "exported"
          /\ UNCHANGED error
  /\ UNCHANGED <<shape, scale, axes_sorted, idx, best_face, profile, optimized,
                 aliased, reoptimized, rotated, batch_vars, gui_vars>>

\* dxf_min_bound/main.py 123-145, run on the DXF file that was exported.
\* The run is followed up for the profiles that were handed in directly.
ProcessDxf ==
  /\ pc = "exported"
  /\ shape = NoValue
  /\ LET all_pts == sample_entities(dxf.entities)
     IN  \/ /\ all_pts = << >>
            /\ error' = "ValueError"
            /\ pc' = "rotate_failed"
            /\ UNCHANGED <<rotated, outputs>>
         \/ /\ find_optimal_angle_may_raise(all_pts)
            /\ error' = "AttributeError"
            /\ pc' = "rotate_failed"
            /\ UNCHANGED <<rotated, outputs>>
         \/ /\ all_pts # << >>
            /\ \E mrr_angle \in find_optimal_angle(all_pts) :
                 rotated' = process_dxf(dxf, mrr_angle)
            /\ outputs' = outputs \cup {"rotated_dxf"}
            /\ pc' = "rotated"
            /\ UNCHANGED error
  /\ UNCHANGED <<shape, scale, axes_sorted, idx, best_face, profile, optimized,
                 aliased, reoptimized, dxf, batch_vars, gui_vars>>

Next ==
  \/ SortAxes
  \/ AxisSkipped
  \/ AxisRejected
  \/ AxisAccepted
  \/ Fallback
  \/ OptimizeRotation
  \/ Reoptimize
  \/ ExportAll
  \/ ProcessDxf

Spec == Init /\ [][Next]_vars

-----------------------------------------------------------------------------
(* The batch loops as a specification of their own: what processing one     *)
(* file does is left open, it returns or it raises.                         *)

\* The variables of process_step_file and process_dxf, at rest.
ProcessIdle ==
  /\ shape = NoValue
  /\ scale = 1
  /\ pc = "idle"
  /\ axes_sorted = << >>
  /\ idx = 0
  /\ best_face = NoValue
  /\ profile = NoValue
  /\ optimized = NoValue
  /\ error = ""
  /\ aliased = {}
  /\ reoptimized = NoValue
  /\ outputs = {}
  /\ dxf = NoValue
  /\ rotated = NoValue

process_vars == <<shape, scale, pc, axes_sorted, idx, best_face, profile, optimized,
                  error, aliased, reoptimized, file_vars>>

BatchInit ==
  /\ ProcessIdle
  /\ AppInit
  /\ tool \in Tools
  /\ files \in Listings
  /\ paths = << >>
  /\ pos = 0
  /\ success = 0
  /\ errors = << >>
  /\ attempted = << >>
  /\ bpc = "start"
  /\ written = << >>

\* main.py 64-72, dxf_min_bound/main.py 154-166, DrawMySTEP.py 131-158: the
\* files are listed and sorted; with none the tool exits (the GUI returns).
ListFiles ==
  /\ bpc = "start"
  /\ paths' = FilesToProcess(tool, files)
  /\ IF paths' = << >>
     THEN bpc' = "no_files" /\ pos' = 0
     ELSE bpc' = "loop" /\ pos' = 1
  /\ UNCHANGED <<tool, files, success, errors, attempted, written, process_vars, gui_vars>>

\* main.py 74-79 (DrawMySTEP.py 172-177): the processing function returned,
\* all its files written.
FileDone ==
  /\ bpc = "loop"
  /\ pos <= Len(paths)
  /\ attempted' = Append(attempted, paths[pos])
  /\ written' = written \o Writes(tool, paths[pos], Len(OutputPaths(tool, paths[pos])))
  /\ success' = success + 1
  /\ pos' = pos + 1
  /\ UNCHANGED <<tool, files, paths, errors, bpc, process_vars, gui_vars>>

\* main.py 80-84 (DrawMySTEP.py 178-181): the processing function raised an
\* Exception, some of its files written and the last of them not; it is
\* recorded and the loop goes on.
FileFailed ==
  /\ bpc = "loop"
  /\ pos <= Len(paths)
  /\ attempted' = Append(attempted, paths[pos])
  /\ \E k \in 0..(Len(OutputPaths(tool, paths[pos])) - 1) :
       written' = written \o Writes(tool, paths[pos], k)
  /\ errors' = Append(errors, paths[pos])
  /\ pos' = index_after_error(pos, Len(paths))
  /\ UNCHANGED <<tool, files, paths, success, bpc, process_vars, gui_vars>>

\* main.py 86-92 (DrawMySTEP.py 186): the summary, or the "done" message.
Summary ==
  /\ bpc = "loop"
  /\ pos > Len(paths)
  /\ bpc' = "summary"
  /\ UNCHANGED <<tool, files, paths, pos, success, errors, attempted, written,
                 process_vars, gui_vars>>

BatchNext ==
  \/ ListFiles
  \/ FileDone
  \/ FileFailed
  \/ Summary

BatchSpec == BatchInit /\ [][BatchNext]_vars

-----------------------------------------------------------------------------
(* The GUI as a specification of its own: the user presses the buttons of   *)
(* the two tabs, each tab's worker thread runs statement by statement, and  *)
(* each tab's poller runs from the event loop.  What processing one file    *)
(* does is left open: it prints lines, then returns or raises an Exception. *)

\* The history of a tab's queue: the log texts a step puts on it while the
\* tab's button is disabled.
Recorded(tbs, old_queues, new_queues) ==
  [t \in Tabs |->
     IF tbs[t].run_btn = "disabled"
     THEN [tbs[t] EXCEPT
             !.enqueued = @ \o LogTexts(SubSeq(new_queues[t], Len(old_queues[t]) + 1,
                                                Len(new_queues[t])))]
     ELSE tbs[t]]

GuiInit ==
  /\ ProcessIdle
  /\ BatchIdle
  /\ AppInit

\* _run (121-158), the command of the tab's button; a disabled button does
\* not call it.  The path entered is empty, names nothing, or names a file
\* or a folder with n files to process.  The text of the status line is
\* left out of the state.
Run(t) ==
  /\ tabs[t].run_btn = "normal"
  /\ \E raw \in {"", "missing", "path"}, n \in 0..MaxPaths :
       CASE raw \in {"", "missing"} ->
              /\ n = 0
              /\ UNCHANGED <<tabs, worker>>
         [] raw = "path" /\ n = 0 ->
              /\ tabs' = [tabs EXCEPT ![t].log_box = <<Text(t, "no_files")>>]
              /\ UNCHANGED worker
         [] raw = "path" /\ n > 0 ->
              /\ tabs[t].runs < MaxRuns
              /\ tabs' = [tabs EXCEPT ![t].log_box = << >>,
                                      ![t].run_btn = set_busy(TRUE),
                                      ![t].polling = TRUE,
                                      ![t].runs = @ + 1,
                                      ![t].enqueued = << >>]
              /\ worker' = [worker EXCEPT ![t].pc = "save_stdout",
                                          ![t].total = n,
                                          ![t].i = 0,
                                          ![t].success = 0,
                                          ![t].printed = 0]
  /\ UNCHANGED <<sys_stdout, sys_stderr, log_queue, process_vars, batch_vars>>

\* _worker 163: original_stdout = sys.stdout.
SaveStdout(t) ==
  /\ worker[t].pc = "save_stdout"
  /\ worker' = [worker EXCEPT ![t].original_stdout = sys_stdout,
                              ![t].pc = "save_stderr"]
  /\ UNCHANGED <<sys_stdout, sys_stderr, tabs, log_queue, process_vars, batch_vars>>

\* _worker 164: original_stderr = sys.stderr.
SaveStderr(t) ==
  /\ worker[t].pc = "save_stderr"
  /\ worker' = [worker EXCEPT ![t].original_stderr = sys_stderr,
                              ![t].pc = "set_stdout"]
  /\ UNCHANGED <<sys_stdout, sys_stderr, tabs, log_queue, process_vars, batch_vars>>

\* _worker 165-166: sys.stdout = QueueWriter(self._log_queue).
SetStdout(t) ==
  /\ worker[t].pc = "set_stdout"
  /\ sys_stdout' = t
  /\ worker' = [worker EXCEPT ![t].pc = "set_stderr"]
  /\ UNCHANGED <<sys_stderr, tabs, log_queue, process_vars, batch_vars>>

\* _worker 167-170: sys.stderr = writer; the counters are set up.
SetStderr(t) ==
  /\ worker[t].pc = "set_stderr"
  /\ sys_stderr' = t
  /\ worker' = [worker EXCEPT ![t].pc = "loop"]
  /\ UNCHANGED <<sys_stdout, tabs, log_queue, process_vars, batch_vars>>

\* _worker 172-173: the next path is announced on the tab's queue, or the
\* loop is left.
NextPath(t) ==
  /\ worker[t].pc = "loop"
  /\ IF worker[t].i < worker[t].total
     THEN /\ log_queue' = put(log_queue, t, <<"log", Text(t, "processing")>>)
          /\ worker' = [worker EXCEPT ![t].i = @ + 1, ![t].printed = 0,
                                      ![t].pc = "process"]
     ELSE /\ worker' = [worker EXCEPT ![t].pc = "restore_stdout"]
          /\ UNCHANGED log_queue
  /\ tabs' = Recorded(tabs, log_queue, log_queue')
  /\ UNCHANGED <<sys_stdout, sys_stderr, process_vars, batch_vars>>

\* _worker 175, inside process_fn: a print, to the object sys.stdout names
\* at that moment.
ProcessPrints(t) ==
  /\ worker[t].pc = "process"
  /\ worker[t].printed < MaxPrints
  /\ log_queue' = print(sys_stdout, log_queue, Text(t, "line"))
  /\ worker' = [worker EXCEPT ![t].printed = @ + 1]
  /\ tabs' = Recorded(tabs, log_queue, log_queue')
  /\ UNCHANGED <<sys_stdout, sys_stderr, process_vars, batch_vars>>

\* _worker 175-177: process_fn returned.
ProcessReturns(t) ==
  /\ worker[t].pc = "process"
  /\ log_queue' = put(log_queue, t, <<"log", Text(t, "done")>>)
  /\ worker' = [worker EXCEPT ![t].success = @ + 1, ![t].pc = "loop"]
  /\ tabs' = Recorded(tabs, log_queue, log_queue')
  /\ UNCHANGED <<sys_stdout, sys_stderr, process_vars, batch_vars>>

\* _worker 178-181: process_fn raised an Exception; the message, the
\* traceback and an empty line are put on the tab's queue.
ProcessRaises(t) ==
  /\ worker[t].pc = "process"
  /\ log_queue' = put(put(put(log_queue, t, <<"log", Text(t, "error")>>),
                          t, <<"log", Text(t, "traceback")>>),
                      t, <<"log", Text(t, "empty")>>)
  /\ worker' = [worker EXCEPT ![t].pc = "loop"]
  /\ tabs' = Recorded(tabs, log_queue, log_queue')
  /\ UNCHANGED <<sys_stdout, sys_stderr, process_vars, batch_vars>>

\* _worker 183: sys.stdout = original_stdout.
RestoreStdout(t) ==
  /\ worker[t].pc = "restore_stdout"
  /\ sys_stdout' = worker[t].original_stdout
  /\ worker' = [worker EXCEPT ![t].pc = "restore_stderr"]
  /\ UNCHANGED <<sys_stderr, tabs, log_queue, process_vars, batch_vars>>

\* _worker 184: sys.stderr = original_stderr.
RestoreStderr(t) ==
  /\ worker[t].pc = "restore_stderr"
  /\ sys_stderr' = worker[t].original_stderr
  /\ worker' = [worker EXCEPT ![t].pc = "put_done"]
  /\ UNCHANGED <<sys_stdout, tabs, log_queue, process_vars, batch_vars>>

\* _worker 186: the "done" item is put on the tab's queue; the thread ends.
PutDone(t) ==
  /\ worker[t].pc = "put_done"
  /\ log_queue' = put(log_queue, t, <<"done", worker[t].success, worker[t].total>>)
  /\ worker' = [worker EXCEPT ![t] = NoThread]
  /\ tabs' = Recorded(tabs, log_queue, log_queue')
  /\ UNCHANGED <<sys_stdout, sys_stderr, process_vars, batch_vars>>

\* _poll_queue (190-209), called by the event loop while it is scheduled:
\* the items in front of the first "done" are appended to the log box; at
\* the "done" the button is enabled again and the poller is not rescheduled.
\* The text of the status line is left out of the state.
PollQueue(t) ==
  /\ tabs[t].polling
  /\ LET q == log_queue[t]
         d == FirstDone(q)
     IN  IF d = 0
         THEN /\ tabs' = [tabs EXCEPT ![t].log_box = @ \o LogTexts(q)]
              /\ log_queue' = [log_queue EXCEPT ![t] = << >>]
         ELSE /\ tabs' = [tabs EXCEPT
                            ![t].log_box = @ \o LogTexts(SubSeq(q, 1, d - 1)),
                            ![t].run_btn = set_busy(FALSE),
                            ![t].enqueued = << >>,
                            ![t].polling = FALSE]
              /\ log_queue' = [log_queue EXCEPT ![t] = SubSeq(q, d + 1, Len(q))]
  /\ UNCHANGED <<sys_stdout, sys_stderr, worker, process_vars, batch_vars>>

\* The steps of tab t's worker thread that take it on: every statement but
\* a print of process_fn.
Advance(t) ==
  \/ SaveStdout(t)
  \/ SaveStderr(t)
  \/ SetStdout(t)
  \/ SetStderr(t)
  \/ NextPath(t)
  \/ ProcessReturns(t)
  \/ ProcessRaises(t)
  \/ RestoreStdout(t)
  \/ RestoreStderr(t)
  \/ PutDone(t)

GuiNext ==
  \E t \in Tabs :
    \/ Run(t)
    \/ Advance(t)
    \/ ProcessPrints(t)
    \/ PollQueue(t)

GuiSpec == GuiInit /\ [][GuiNext]_vars

\* A started thread keeps running and processing a file comes to an end;
\* the event loop keeps calling a scheduled poller.
GuiFairness ==
  \A t \in Tabs : WF_vars(Advance(t)) /\ WF_vars(PollQueue(t))

GuiLiveSpec == GuiSpec /\ GuiFairness

-----------------------------------------------------------------------------
(* Properties                                                               *)

AxisSet == {AXES[i] : i \in 1..Len(AXES)}

AxisIndex(a) == CHOOSE i \in 1..Len(AXES) : AXES[i] = a

\* Axis a is tried before axis b: smaller extent, ties in X, Y, Z order.
Before(sh, a, b) ==
  \/ sh.extents[a] < sh.extents[b]
  \/ sh.extents[a] = sh.extents[b] /\ AxisIndex(a) < AxisIndex(b)

\* The axis has a matching planar face and its largest one passes the
\* rectangle check.
Accepts(sh, sc, a) ==
  LET cands == CandidateFaces(sh, a)
  IN  /\ cands # << >>
      /\ ~RectangleCheck(FaceWires(MaxAreaFace(cands), a, sc))

\* extract_profile has returned.
Extracted == shape # NoValue /\ profile # NoValue

\* ... from inside the axis loop / from the fallback after it.
ReturnedInLoop == Extracted /\ idx <= Len(AXES)

ReturnedByFallback == Extracted /\ idx > Len(AXES)

\* C1: the axes are tried in ascending order of extent, ties in X, Y, Z
\* order, and the profile returned from the loop is that of the first axis
\* in that order whose largest matching planar face passes the rectangle
\* check; the fallback is reached only when no axis passes.  The result is
\* fixed by the solid and the scale.
C1_FirstAcceptedAxis ==
  /\ axes_sorted # << >> =>
       /\ Len(axes_sorted) = Len(AXES)
       /\ \A i, j \in 1..Len(axes_sorted) :
            i < j => Before(shape, axes_sorted[i], axes_sorted[j])
  /\ ReturnedInLoop =>
       LET a == profile.extrusion_axis
       IN  /\ Accepts(shape, scale, a)
           /\ \A b \in AxisSet : Before(shape, b, a) => ~Accepts(shape, scale, b)
           /\ profile = ProfileOfFace(shape, MaxAreaFace(CandidateFaces(shape, a)),
                                      a, scale)
  /\ ReturnedByFallback => \A b \in AxisSet : ~Accepts(shape, scale, b)

\* C1 witness: a profile returned for an axis that ties in extent with
\* another axis that would pass too.
C1_Witness ==
  /\ ReturnedInLoop
  /\ \E b \in AxisSet :
       /\ b # profile.extrusion_axis
       /\ shape.extents[b] = shape.extents[profile.extrusion_axis]
       /\ Accepts(shape, scale, b)

\* Exactly 4 Lines, each near-perpendicular to the next one around.
FourPerpendicularLines(edges) ==
  /\ Len(edges) = 4
  /\ \A i \in 1..4 : edges[i].k = "Line"
  /\ \A i \in 1..4 : ~NotPerpendicular(edges[i], edges[(i % 4) + 1])

\* The wires extracted from the largest matching face of the j-th axis tried.
TriedWires(j) ==
  LET b == axes_sorted[j]
  IN  FaceWires(MaxAreaFace(CandidateFaces(shape, b)), b, scale)

\* C2 as claimed: an axis/face pair is passed over exactly when the face's
\* OUTER boundary is 4 near-perpendicular Lines, whatever holes it has.
C2_Original ==
  /\ ReturnedInLoop => ~FourPerpendicularLines(profile.wires[1])
  /\ (shape # NoValue /\ axes_sorted # << >>) =>
       \A j \in 1..(idx - 1) :
          j <= Len(axes_sorted) /\ CandidateFaces(shape, axes_sorted[j]) # << >>
            => FourPerpendicularLines(TriedWires(j)[1])

\* C2 amended: an axis/face pair is passed over exactly when the flattened
\* edge list of the face, outer boundary followed by the holes, is 4
\* near-perpendicular Lines; a face whose holes add primitives is accepted.
C2_RejectsOnAllEdges ==
  /\ ReturnedInLoop => ~FourPerpendicularLines(profile.edges)
  /\ (shape # NoValue /\ axes_sorted # << >>) =>
       \A j \in 1..(idx - 1) :
          j <= Len(axes_sorted) /\ CandidateFaces(shape, axes_sorted[j]) # << >>
            => FourPerpendicularLines(Flatten(TriedWires(j)))

\* C2 witness: a face with a rectangular outer boundary and a hole was
\* accepted in the loop.
C2_Witness ==
  /\ ReturnedInLoop
  /\ Len(profile.wires) > 1
  /\ profile.wires[2] # << >>
  /\ FourPerpendicularLines(profile.wires[1])

SmallestAxis(sh) == CHOOSE a \in AxisSet : \A b \in AxisSet \ {a} : Before(sh, a, b)

\* C3: when no axis passes, the profile is that of the smallest-extent axis,
\* taken from its largest matching planar face without a rectangle check, or
\* from the first face when none matches; extract_profile raises nothing.
C3_FallbackProfile ==
  /\ error # "IndexError"
  /\ (Extracted /\ \A b \in AxisSet : ~Accepts(shape, scale, b)) =>
       LET a == SmallestAxis(shape)
           m == CandidateFaces(shape, a)
       IN  /\ profile.extrusion_axis = a
           /\ profile.thickness_inches = shape.extents[a] * scale
           /\ m # << >> =>
                /\ \A i \in 1..Len(m) : m[i].area <= best_face.area
                /\ \E i \in 1..Len(m) : m[i] = best_face
           /\ m = << >> => best_face = shape.faces[1]
           /\ profile.wires = FaceWires(best_face, a, scale)
           /\ profile.edges = Flatten(profile.wires)

\* C3 witness: the fallback returned a plain rectangle, unchecked.
C3_Witness ==
  /\ ReturnedByFallback
  /\ CandidateFaces(shape, profile.extrusion_axis) # << >>
  /\ FourPerpendicularLines(profile.edges)

\* C4 as claimed: a solid without any planar face never gets a ProfileResult.
C4_Original ==
  (shape # NoValue /\ \A i \in 1..Len(shape.faces) : shape.faces[i].geomType # "PLANE")
    => profile = NoValue

\* The curves of a wire that are not degenerate, and the wires of a face.
KeptCurves(w) == SelectSeq(w, LAMBDA c : Abs(c.last - c.first) >= ParamEps)

WiresOf(face) == <<face.outer>> \o face.inner

\* P(curve, primitive, axis) for every kept circular curve of the face the
\* profile came from, with the primitive emitted for it.
ForCircularCurves(P(_, _, _)) ==
  (Extracted /\ best_face # NoValue) =>
    \A w \in 1..Len(profile.wires) :
      LET cs == KeptCurves(WiresOf(best_face)[w])
      IN  /\ Len(profile.wires[w]) = Len(cs)
          /\ \A j \in 1..Len(cs) :
               cs[j].type = "circle" => P(cs[j], profile.wires[w][j], profile.extrusion_axis)

\* The polar angle about the arc's centre of the curve's projected midpoint.
MidAngle(c, e, axis) ==
  LET pm == ProjectAt(c, c.first + c.last, 2, axis, scale)
  IN  Atan2Deg(pm[2] - e.cy, pm[1] - e.cx)

\* C5 as claimed: for a circular curve that is not a full turn, seen along
\* the normal of its plane, the Arc's sweep is the counter-clockwise sweep
\* from start to end when the midpoint's offset from the start lies within
\* it, and that sweep minus 360 otherwise; a clockwise curve gets a negative
\* sweep and a counter-clockwise one a positive sweep, however short.
C5_SweepRule(c, e, axis) ==
  (c.last - c.first # TURN /\ c.plane = axis) =>
    /\ e.k = "Arc"
    /\ LET n0  == normalize_angle(Atan2Deg(e.y2 - e.cy, e.x2 - e.cx) - e.start_deg)
           ccw == IF n0 = 0 THEN TURN ELSE n0
           mid == normalize_angle(MidAngle(c, e, axis) - e.start_deg)
       IN  e.sweep_deg = IF mid <= ccw THEN ccw ELSE ccw - TURN
    /\ c.orient = 1 => e.sweep_deg > 0
    /\ c.orient = -1 => e.sweep_deg < 0

C5_Original == ForCircularCurves(C5_SweepRule)

\* C6: a circular curve whose span is a full turn yields a Circle2D, never
\* an Arc2D.
C6_FullTurn(c, e, axis) == c.last - c.first = TURN => e.k = "Circle"

C6_FullCircleIsCircle == ForCircularCurves(C6_FullTurn)

\* C6 witness: a profile holds the Circle2D of a full-turn curve.
C6_Witness ==
  /\ Extracted /\ best_face # NoValue
  /\ \E w \in 1..Len(profile.wires) :
       LET cs == KeptCurves(WiresOf(best_face)[w])
       IN  \E j \in 1..Len(cs) :
             /\ cs[j].type = "circle"
             /\ cs[j].last - cs[j].first = TURN
             /\ profile.wires[w][j].k = "Circle"

\* Every Arc2D of a list of edges / of a list of wires satisfies P.
ArcsIn(edges, P(_)) == \A j \in 1..Len(edges) : edges[j].k = "Arc" => P(edges[j])

ArcsOf(p, P(_)) ==
  /\ ArcsIn(p.edges, P)
  /\ \A w \in 1..Len(p.wires) : ArcsIn(p.wires[w], P)

SweepInRange(e) == e.sweep_deg # 0 /\ Abs(e.sweep_deg) <= TURN

\* C7: every Arc2D of an extracted profile and of an optimized profile has a
\* non-zero sweep of magnitude at most 360 degrees.
C7_ArcSweepNonZero ==
  /\ profile # NoValue => ArcsOf(profile, SweepInRange)
  /\ optimized # NoValue => ArcsOf(optimized, SweepInRange)

\* C7 witness: an arc whose start and end project to the same point, so
\* that its counter-clockwise sweep computes to 0, went through the
\* optimizer as a 360 degree arc.
C7_Witness ==
  /\ Extracted /\ optimized # NoValue
  /\ \E j \in 1..Len(profile.edges) :
       /\ profile.edges[j].k = "Arc"
       /\ profile.edges[j].x1 = profile.edges[j].x2
       /\ profile.edges[j].y1 = profile.edges[j].y2
       /\ optimized.edges[j].sweep_deg = TURN

\* P(input arc, output arc) for every Arc2D of the optimizer's input, in the
\* edge list and in the wires.
ForRotatedArcs(P(_, _)) ==
  pc = "done" =>
    /\ \A j \in 1..Len(profile.edges) :
         profile.edges[j].k = "Arc" => P(profile.edges[j], optimized.edges[j])
    /\ \A w \in 1..Len(profile.wires) : \A j \in 1..Len(profile.wires[w]) :
         profile.wires[w][j].k = "Arc" => P(profile.wires[w][j], optimized.wires[w][j])

\* C8 as claimed: the rotated arc keeps its sweep and starts at
\* (a + phi) mod 360, a value in [0, 360).
C8_StartMod360(old, new) ==
  /\ new.sweep_deg = old.sweep_deg
  /\ new.start_deg = (old.start_deg + optimized.rotation_deg) % TURN

C8_Original == ForRotatedArcs(C8_StartMod360)

\* C8 amended: the rotated arc keeps its sweep, and its start angle is
\* a + phi', with phi' the rotation angle as atan2 returns it, in
\* [-180, 180]: congruent to a + phi modulo 360, not reduced into [0, 360).
C8_StartShifted(old, new) ==
  /\ new.sweep_deg = old.sweep_deg
  /\ (new.start_deg - (old.start_deg + optimized.rotation_deg)) % TURN = 0
  /\ Abs(new.start_deg - old.start_deg) <= TURN \div 2

C8_ArcRotation == ForRotatedArcs(C8_StartShifted)

\* C8 witness: an arc was rotated by a non-zero angle and starts at a
\* negative angle.
C8_Witness ==
  /\ pc = "done"
  /\ optimized.rotation_deg # 0
  /\ \E j \in 1..Len(optimized.edges) :
       optimized.edges[j].k = "Arc" /\ optimized.edges[j].start_deg < 0

\* The polar angle theta lies on the arc from start over the signed sweep.
InSweep(theta, start, sweep) ==
  IF sweep >= 0 THEN (theta - start) % TURN <= sweep
  ELSE (start - theta) % TURN <= -sweep

\* Points that span the true extent of a primitive: the end points of a
\* Line, the points of a Polyline, the four axis-extreme points of a Circle,
\* and for an Arc its end points and the axis-extreme points it passes.
ExtremePoints(e) ==
  CASE e.k = "Line"     -> <<<<e.x1, e.y1>>, <<e.x2, e.y2>>>>
    [] e.k = "Polyline" -> e.points
    [] e.k = "Circle"   -> <<<<e.cx + e.r, e.cy>>, <<e.cx, e.cy + e.r>>,
                             <<e.cx - e.r, e.cy>>, <<e.cx, e.cy - e.r>>>>
    [] e.k = "Arc"      ->
         <<<<e.x1, e.y1>>, <<e.x2, e.y2>>>>
           \o (IF InSweep(0, e.start_deg, e.sweep_deg)
               THEN <<<<e.cx + e.r, e.cy>>>> ELSE << >>)
           \o (IF InSweep(TURN \div 4, e.start_deg, e.sweep_deg)
               THEN <<<<e.cx, e.cy + e.r>>>> ELSE << >>)
           \o (IF InSweep(TURN \div 2, e.start_deg, e.sweep_deg)
               THEN <<<<e.cx - e.r, e.cy>>>> ELSE << >>)
           \o (IF InSweep(3 * (TURN \div 4), e.start_deg, e.sweep_deg)
               THEN <<<<e.cx, e.cy - e.r>>>> ELSE << >>)

RECURSIVE ExtentPoints(_)
ExtentPoints(edges) ==
  IF edges = << >> THEN << >>
  ELSE ExtremePoints(Head(edges)) \o ExtentPoints(Tail(edges))

\* The points span [0, w] x [0, h] and touch all four sides.
FillsBox(pts, w, h) ==
  /\ pts # << >>
  /\ MinCoord(pts, 1) = 0 /\ MinCoord(pts, 2) = 0
  /\ MaxCoord(pts, 1) = w /\ MaxCoord(pts, 2) = h

C10_Original ==
  (pc \in {"done", "failed"} /\ profile # NoValue
     /\ Len(sample_points(profile.edges)) < 3)
    => (pc = "done" /\ error = "" /\ optimized.rotation_deg = 0)

\* optimize_rotation has just returned or raised.
OptimizeStep == pc = "optimize" /\ pc' # "optimize"

C12_Original ==
  pc = "redone" =>
    /\ reoptimized.rotation_deg = 0
    /\ reoptimized.bbox_w = optimized.bbox_w
    /\ reoptimized.bbox_h = optimized.bbox_h

\* The directions in [0, 180) the box area is compared at.
TestAngles == SideDirections \cup {d + TURN \div 4 : d \in SideDirections}

Area(o) == o.bbox_w * o.bbox_h

\* The box optimize_rotation computes at lines 146-157 for the angle.
BoxAtAngle(prof, angle_deg) ==
  BoxAt(sample_points(RotateEdges(prof.edges, Cos(-angle_deg), Sin(-angle_deg))), 0)

AreaAtAngle(prof, angle_deg) ==
  LET b == BoxAtAngle(prof, angle_deg) IN b[1] * b[2]

\* Coordinates are whole numbers here: a rotated coordinate is off by at
\* most one unit, a box side by at most two.
RoundingSlack == 2

\* The reported box is no larger than a box, up to rounding.
AreaWithin(o, box) ==
  o.bbox_w * o.bbox_h <= (box[1] + RoundingSlack) * (box[2] + RoundingSlack)

MinimalOverTestAngles ==
  LET boxes == [a \in TestAngles |-> BoxAtAngle(profile, a)]
  IN  \A a \in TestAngles : AreaWithin(optimized, boxes[a])

HasCircle(edges) == \E j \in 1..Len(edges) : edges[j].k = "Circle"

AnyAngles == {WrapAngle(d + k * (TURN \div 4)) : d \in SideDirections, k \in 0..3}

SingleCircle(prof) == Len(prof.edges) = 1 /\ prof.edges[1].k = "Circle"

\* The output for a circle of radius r: a box of 2r by 2r and the one
\* circle, of the same radius, centred on (r, r).
CircleOutput(o, r) ==
  /\ o.bbox_w = 2 * r
  /\ o.bbox_h = 2 * r
  /\ o.edges = <<Circle2D(r, r, r)>>
  /\ o.wires = <<o.edges>>

\* C14: a profile of one Circle2D of radius r, wherever its centre, comes out
\* of optimize_rotation with bbox_w = bbox_h = 2r and the circle centred on
\* (r, r), for the angle the minimum-rectangle step reported and for any
\* other angle it could have reported.
C14_SingleCircle ==
  (pc = "done" /\ SingleCircle(profile)) =>
    /\ CircleOutput(optimized, profile.edges[1].r)
    /\ \A a \in AnyAngles :
         CircleOutput(OptimizeWithAngle(profile, a), profile.edges[1].r)

\* C14 witness: a circle centred off (r, r) went through a turn off the axes.
C14_Witness ==
  /\ pc = "done"
  /\ SingleCircle(profile)
  /\ <<profile.edges[1].cx, profile.edges[1].cy>> # <<profile.edges[1].r, profile.edges[1].r>>
  /\ optimized.rotation_deg % (TURN \div 4) # 0

\* Two coordinates, or two points, that differ by rounding at most.
Near(p, q) == Abs(p[1] - q[1]) <= RoundingSlack /\ Abs(p[2] - q[2]) <= RoundingSlack

\* Every point of one list has a point of the other next to it.
SamePoints(ps, qs) ==
  /\ \A i \in 1..Len(ps) : \E j \in 1..Len(qs) : Near(ps[i], qs[j])
  /\ \A j \in 1..Len(qs) : \E i \in 1..Len(ps) : Near(ps[i], qs[j])

\* Two DXF entities that describe the same geometry.
SameEntity(d, e) ==
  /\ d.k = e.k
  /\ CASE d.k = "LINE" -> Near(<<d.x1, d.y1>>, <<e.x1, e.y1>>) /\ Near(<<d.x2, d.y2>>, <<e.x2, e.y2>>)
       [] d.k = "CIRCLE" -> Near(<<d.cx, d.cy>>, <<e.cx, e.cy>>) /\ d.r = e.r
       [] d.k = "ARC" -> /\ Near(<<d.cx, d.cy>>, <<e.cx, e.cy>>) /\ d.r = e.r
                         /\ (d.start_angle - e.start_angle) % TURN = 0
                         /\ (d.end_angle - e.end_angle) % TURN = 0
       [] d.k = "LWPOLYLINE" -> /\ Len(d.points) = Len(e.points)
                                /\ \A j \in 1..Len(d.points) : Near(d.points[j], e.points[j])
       [] OTHER -> FALSE

SameEntities(ds, es) ==
  Len(ds) = Len(es) /\ \A j \in 1..Len(ds) : SameEntity(ds[j], es[j])

\* What optimize_rotation makes of the primitives the DXF file was written
\* from, for the angle the standalone tool found.
PipelineOnSame == OptimizeWithAngle(optimized, -rotated.angle_deg)

SameSampledPoints == SamePoints(sample_entities(dxf.entities), sample_points(optimized.edges))

SameAngles ==
  find_optimal_angle(sample_entities(dxf.entities)) = find_optimal_angle(sample_points(optimized.edges))

SameGeometry == SameEntities(rotated.entities, add_edges(PipelineOnSame.edges))

SameBox == Near(<<rotated.bbox_w, rotated.bbox_h>>, <<PipelineOnSame.bbox_w, PipelineOnSame.bbox_h>>)

\* C15 as claimed: for the same lines, circles, arcs and polylines the
\* standalone tool and optimize_rotation compute the same sampled points,
\* the same rotation angle, the same rotated and translated geometry and the
\* same bounding width and height.
C15_Original ==
  pc = "rotated" => SameSampledPoints /\ SameAngles /\ SameGeometry /\ SameBox

IsArc(e) == e.k = "Arc"

IsArcEntity(e) == e.k = "ARC"

\* The ARC covers, counter-clockwise from its start_angle to its end_angle,
\* the polar angles the Arc2D passes from start_deg to start_deg + sweep_deg,
\* on the same circle.
SameArc(entity, edge) ==
  /\ <<entity.cx, entity.cy, entity.r>> = <<edge.cx, edge.cy, edge.r>>
  /\ \A theta \in 0..(TURN - 1) :
       InSpan(theta, entity.start_angle, ArcSpan(entity.start_angle, entity.end_angle))
         <=> InSweep(theta, edge.start_deg, edge.sweep_deg)

\* C18: export_dxf writes one ARC for each Arc2D, in order, and for a sweep
\* s with s # 0 and |s| <= 360, positive or negative, the ARC covers exactly
\* the angles of the Arc2D.
C18_ArcExport ==
  pc \in {"exported", "export_failed"} =>
    LET arcs == SelectSeq(optimized.edges, IsArc)
        ents == SelectSeq(dxf.entities, IsArcEntity)
    IN  /\ Len(ents) = Len(arcs)
        /\ \A j \in 1..Len(arcs) :
             SweepInRange(arcs[j]) => SameArc(ents[j], arcs[j])

\* C18 witness: a clockwise arc that ends at a negative angle was exported,
\* and a counter-clockwise one.
C18_Witness ==
  /\ pc \in {"exported", "export_failed"}
  /\ \E j \in 1..Len(optimized.edges) :
       /\ IsArc(optimized.edges[j])
       /\ optimized.edges[j].sweep_deg < 0
       /\ optimized.edges[j].sweep_deg > -TURN
  /\ \E j \in 1..Len(optimized.edges) :
       IsArc(optimized.edges[j]) /\ optimized.edges[j].sweep_deg > 0

\* The list is in name order: by name.lower(), no file before one that sorts
\* lower.
InNameOrder(l) == \A a, b \in 1..Len(l) : a < b => LowerKey[l[a]] <= LowerKey[l[b]]

\* C16: in a batch loop a failure does not stop the batch.  The files handed
\* to the processing function so far are the first files of the list, each
\* once and in name order; when the summary is reached they are all of the
\* list, and the success count plus the recorded failures is their number.
C16_BatchCompletes ==
  /\ bpc \in {"loop", "summary"} =>
       /\ InNameOrder(paths)
       /\ attempted = SubSeq(paths, 1, pos - 1)
       /\ success + Len(errors) = Len(attempted)
  /\ bpc = "summary" =>
       /\ attempted = paths
       /\ success + Len(errors) = Len(paths)
       /\ \A n \in FileNames :
            Cardinality({a \in 1..Len(attempted) : attempted[a] = n})
              = (IF \E a \in 1..Len(files) : files[a] = n /\ Kept(tool, n) THEN 1 ELSE 0)

\* C16 witness: a batch whose first file failed and whose second, listed by
\* glob before the first, succeeded, has reached its summary.
C16_Witness ==
  /\ bpc = "summary"
  /\ Len(paths) = 2
  /\ paths # files
  /\ errors = <<paths[1]>>
  /\ success = 1

\* The kinds of the primitives of a list, in order.
Kinds(edges) == [j \in 1..Len(edges) |-> edges[j].k]

\* The number of primitives in the wires before wire w.
RECURSIVE Offset(_, _)
Offset(wires, w) ==
  IF w = 1 THEN 0 ELSE Offset(wires, w - 1) + Len(wires[w - 1])

\* The list holds the primitives of the first wire, then those of the
\* second, and so on, and nothing else.
IsConcatenation(edges, wires) ==
  /\ Len(edges) = Offset(wires, Len(wires) + 1)
  /\ \A w \in 1..Len(wires) : \A j \in 1..Len(wires[w]) :
       edges[Offset(wires, w) + j] = wires[w][j]

\* C19: in the ProfileResult extract_profile returns, wires[0] holds the
\* primitives of the outer boundary of the face, wires[1:] those of its
\* holes in the order innerWires() lists them, and edges is the wires
\* concatenated in that order.  The OptimizedProfile made of it has the same
\* wires, primitive by primitive, and its edges are again its wires
\* concatenated.
C19_WireStructure ==
  /\ Extracted =>
       /\ Len(profile.wires) = 1 + Len(best_face.inner)
       /\ profile.wires[1] =
            extract_edges_from_wire(best_face.outer, profile.extrusion_axis, scale)
       /\ \A h \in 1..Len(best_face.inner) :
            profile.wires[1 + h] =
              extract_edges_from_wire(best_face.inner[h], profile.extrusion_axis, scale)
  /\ profile # NoValue =>
       IsConcatenation(profile.edges, profile.wires)
  /\ pc = "done" =>
       /\ Len(optimized.wires) = Len(profile.wires)
       /\ \A w \in 1..Len(profile.wires) :
            Kinds(optimized.wires[w]) = Kinds(profile.wires[w])
       /\ IsConcatenation(optimized.edges, optimized.wires)

\* C19 witness: a profile with an outer boundary and two holes of different
\* make-up, none of them empty, was extracted and optimized.
C19_Witness ==
  /\ pc = "done"
  /\ Extracted
  /\ Len(profile.wires) >= 3
  /\ \A w \in 1..Len(profile.wires) : profile.wires[w] # << >>
  /\ Kinds(profile.wires[2]) # Kinds(profile.wires[3])

\* The primitive is the one a curve of this type and span is turned into:
\* a Line for a straight curve, a Circle or an Arc for a circular one, and
\* for any other a Polyline of max(20, span) + 1 points, the span counted
\* in fiftieths.
PrimitiveFor(c, e) ==
  CASE c.type = "line"   -> e.k = "Line"
    [] c.type = "circle" -> e.k \in {"Circle", "Arc"}
    [] OTHER ->
         /\ e.k = "Polyline"
         /\ Len(e.points) = (IF c.last - c.first > MinTessellation
                             THEN c.last - c.first ELSE MinTessellation) + 1

\* C20: for every wire of the face the profile came from,
\* _extract_edges_from_wire emitted nothing for the curves whose span is
\* below the epsilon and one primitive of the matching type for each other
\* curve, in the order of the curves.
C20_OnePrimitivePerCurve ==
  (Extracted /\ best_face # NoValue) =>
    \A w \in 1..Len(WiresOf(best_face)) :
      LET kept == KeptCurves(WiresOf(best_face)[w])
          out  == profile.wires[w]
      IN  /\ Len(out) = Len(kept)
          /\ \A j \in 1..Len(kept) : PrimitiveFor(kept[j], out[j])

\* C20 witness: a wire with a degenerate curve, a straight curve, a long
\* and a short curve of another type was extracted.
C20_Witness ==
  /\ Extracted
  /\ best_face # NoValue
  /\ \E w \in 1..Len(WiresOf(best_face)) :
       LET cs == WiresOf(best_face)[w]
       IN  /\ Len(KeptCurves(cs)) < Len(cs)
           /\ \E j \in 1..Len(cs) : cs[j].type = "line" /\ cs[j].last > cs[j].first
           /\ \E j \in 1..Len(cs) :
                cs[j].type = "other" /\ cs[j].last - cs[j].first > MinTessellation
           /\ \E j \in 1..Len(cs) :
                /\ cs[j].type = "other"
                /\ cs[j].last - cs[j].first >= ParamEps
                /\ cs[j].last - cs[j].first < MinTessellation

-----------------------------------------------------------------------------
(* C21: optimize_rotation preserves the structure of the profile            *)

\* Primitive b is of the variant of a, with its radius if it is a circle or
\* an arc, its sweep if it is an arc, and its number of points if it is a
\* polyline.
SameShape(a, b) ==
  /\ b.k = a.k
  /\ a.k \in {"Circle", "Arc"} => b.r = a.r
  /\ a.k = "Arc" => b.sweep_deg = a.sweep_deg
  /\ a.k = "Polyline" => Len(b.points) = Len(a.points)

\* List bs has a primitive of the same shape at every position of as.
SameShapes(as, bs) ==
  /\ Len(bs) = Len(as)
  /\ \A j \in 1..Len(as) : SameShape(as[j], bs[j])

\* C21: the OptimizedProfile has, in edges and in each wire, as many
\* primitives as the input, in the same order and of the same variant;
\* circles and arcs keep their radius, arcs their sweep, polylines their
\* number of points; thickness_inches is the input's.
C21_StructurePreserved ==
  pc = "done" =>
    /\ SameShapes(profile.edges, optimized.edges)
    /\ Len(optimized.wires) = Len(profile.wires)
    /\ \A w \in 1..Len(profile.wires) :
         SameShapes(profile.wires[w], optimized.wires[w])
    /\ optimized.thickness_inches = profile.thickness_inches

\* C21 witness: a profile with an arc and a polyline of several points came
\* out rotated by a non-zero angle.
C21_Witness ==
  /\ pc = "done"
  /\ optimized.rotation_deg # 0
  /\ \E i, j \in 1..Len(profile.edges) :
       /\ i # j
       /\ profile.edges[i].k = "Arc"
       /\ profile.edges[j].k = "Polyline"
       /\ Len(profile.edges[j].points) >= 2
       /\ optimized.edges[i] # profile.edges[i]

-----------------------------------------------------------------------------
(* C22, C23: the GUI's worker threads, streams and queues                   *)

\* No worker thread of either tab exists.
NoWorker == \A t \in Tabs : worker[t].pc = "idle"

\* Every log text on a tab's queue was written by that tab's thread.
OwnQueues ==
  \A t \in Tabs : \A k \in 1..Len(log_queue[t]) :
    log_queue[t][k][1] = "log" => log_queue[t][k][2].by = t

\* C22 as claimed: whenever no worker is running, sys.stdout and sys.stderr
\* are the original streams of the process, whatever the interleaving of
\* the two tabs' workers; and no text printed by one tab's processing is on
\* the other tab's log queue.
C22_Original ==
  /\ NoWorker => (sys_stdout = OriginalStream /\ sys_stderr = OriginalStream)
  /\ OwnQueues

\* The number of "done" items on a queue.
Dones(q) == Cardinality({k \in 1..Len(q) : q[k][1] = "done"})

\* The run of tab t is under way: its thread exists, or its "done" item is
\* still on the queue.
RunUnderWay(t) == worker[t].pc # "idle" \/ Dones(log_queue[t]) > 0

\* The texts of a sequence that tab t's thread wrote.
OwnTexts(t, texts) == SelectSeq(texts, LAMBDA x : x.by = t)

\* The poller of tab t enables the button again.
Reenabled(t) == tabs[t].run_btn = "disabled" /\ tabs'[t].run_btn = "normal"

\* While the run of tab t is under way the button is disabled and the
\* poller scheduled.  The thread puts no "done" item before it ends and one
\* when it ends, behind all it wrote, with success <= total.
C23_RunProtocol(t) ==
  LET q == log_queue[t]
      d == FirstDone(q)
  IN  /\ RunUnderWay(t) => (tabs[t].run_btn = "disabled" /\ tabs[t].polling)
      /\ worker[t].pc # "idle" => Dones(q) = 0
      /\ (worker[t].pc = "idle" /\ tabs[t].run_btn = "disabled") => Dones(q) = 1
      /\ d # 0 =>
           /\ q[d][2] <= q[d][3]
           /\ \A k \in (d + 1)..Len(q) : q[k][2].by # t

\* C23: within a tab, from the start of a run until the poller takes the
\* run's "done" item the button stays disabled, so the tab has one worker
\* at a time; the worker puts exactly one "done" item, behind all its log
\* items, with success <= total; when the poller enables the button it has
\* appended every log item of the run and is not rescheduled; and every run
\* that was started gets there.
C23_OneRunAtATime ==
  /\ [](\A t \in Tabs : C23_RunProtocol(t))
  /\ [][\A t \in Tabs :
          Reenabled(t) =>
            /\ OwnTexts(t, tabs'[t].log_box) = OwnTexts(t, tabs[t].enqueued)
            /\ ~tabs'[t].polling]_vars
  /\ \A t \in Tabs : (tabs[t].run_btn = "disabled") ~> (tabs[t].run_btn = "normal")

\* C23 witness: a run with a failed file is over, its button enabled again
\* and its messages in the log box, while the other tab's worker is
\* processing a file.
C23_Witness ==
  \E t, u \in Tabs :
    /\ t # u
    /\ tabs[t].runs = 1
    /\ tabs[t].run_btn = "normal"
    /\ \E k \in 1..Len(tabs[t].log_box) : tabs[t].log_box[k] = Text(t, "traceback")
    /\ worker[u].pc = "process"

-----------------------------------------------------------------------------
(* C24: the output paths of a batch                                         *)

\* The path of the listed file named n.
InputPath(t, n) == Path(n, 0, InputExt(t))

\* No file was written for two different inputs.
DistinctOutputs ==
  \A a, b \in 1..Len(written) :
    written[a].path = written[b].path => written[a].input = written[b].input

\* No file written is one of the inputs of the batch.
InputsKept ==
  \A a \in 1..Len(written) : \A b \in 1..Len(paths) :
    written[a].path # InputPath(tool, paths[b])

\* The DXF tool took no file whose stem ends in _rotated, and wrote no file
\* it would list as an input when it is run on the folder again.
SameInputsAgain ==
  (SkipsRotated(tool) /\ bpc \in {"loop", "summary"}) =>
    /\ \A b \in 1..Len(paths) : ~paths[b].rotated
    /\ \A a \in 1..Len(written) :
         written[a].path.ext = InputExt(tool) => written[a].path.suffixes > 0

\* C24 as claimed: in a batch over a folder, different input files write to
\* different output paths, so that no output overwrites the output of
\* another input or an input file; and the DXF tool takes no file whose
\* stem ends in _rotated, so that a second run has the inputs of the first.
C24_Original ==
  /\ DistinctOutputs
  /\ InputsKept
  /\ SameInputsAgain

====
